---------------------------- MODULE Spec2Model ----------------------------
(***************************************************************************)
(* FileVault v3 (src/filevault.py): a file is encoded into a stream of raw *)
(* RGB frames (calibration, metadata, data x repeat) and decoded back.     *)
(*                                                                         *)
(* Byte strings are sequences of integers 0..255.  A frame is the byte     *)
(* string the encoder hands to the sink.  Python offsets are 0-based, so   *)
(* At(s, o) reads s[o].                                                    *)
(*                                                                         *)
(* Library functions are modelled by small stand-ins with the same         *)
(* contract: zlib.crc32 is the real CRC-32; hashlib.sha256 is a 32-byte    *)
(* digest (Sha256); zlib.compress/decompress is a run-length coder that    *)
(* is lossless and rejects malformed input (LibCompress, LibDecompress).   *)
(***************************************************************************)
EXTENDS Integers, Sequences, FiniteSets, TLC

(***************************************************************************)
(* Program constants                                                       *)
(***************************************************************************)
MAGIC == <<70, 86, 76, 84>>
VERSION == 3
YT_LEVELS == <<0, 85, 170, 255>>
LOCAL_LEVELS == <<0, 36, 73, 109, 146, 182, 219, 255>>
DEFAULT_BLOCK_YT == 8
DEFAULT_BLOCK_LOCAL == 4
DEFAULT_FPS == 10

\* Python's None where a record is expected (a header, encode's locals, a
\* command), where the LUT triple is expected, and where a password is
\* expected (None and '' are both false in the tests of the code)
None == [none |-> TRUE]
NoLuts == <<>>
NoPassword == <<>>

(***************************************************************************)
(* Byte and bit helpers                                                    *)
(***************************************************************************)
At(s, o) == s[o + 1]

Min(a, b) == IF a < b THEN a ELSE b
Max(a, b) == IF a > b THEN a ELSE b
Abs(a) == IF a < 0 THEN -a ELSE a

\* s[a:b] of Python for 0 <= a: the slice stops at the end of s
Slice(s, a, b) == SubSeq(s, a + 1, Min(b, Len(s)))

\* a sequence written element by element, as the list or bytes value it is
List(f) == f \o <<>>

Zeros(n) == List([i \in 1..n |-> 0])

\* math.ceil(a / b) for a >= 0, b > 0
CeilDiv(a, b) == (a + b - 1) \div b

RECURSIVE BitXor(_, _, _)
\* a ^ b on w-bit operands
BitXor(a, b, w) ==
    IF w = 0 THEN 0
    ELSE ((a + b) % 2) + 2 * BitXor(a \div 2, b \div 2, w - 1)

RECURSIVE BitAnd(_, _, _)
BitAnd(a, b, w) ==
    IF w = 0 THEN 0
    ELSE ((a % 2) * (b % 2)) + 2 * BitAnd(a \div 2, b \div 2, w - 1)

\* struct.pack('>H', n)
PackH(n) == <<(n \div 256) % 256, n % 256>>
\* struct.unpack('>H', b)
UnpackH(b) == b[1] * 256 + b[2]

\* struct.pack('>I', n) for n < 2^31
PackI(n) == <<(n \div 16777216) % 256, (n \div 65536) % 256, (n \div 256) % 256, n % 256>>

\* struct.pack('>Q', n) for n < 2^31
PackQ(n) == <<0, 0, 0, 0>> \o PackI(n)

(***************************************************************************)
(* Library stand-ins                                                       *)
(***************************************************************************)
\* One bit step of the reflected CRC-32 (polynomial 0xEDB88320) on a register
\* held as two 16-bit halves <<hi, lo>>.
CrcShift(c) ==
    LET hi == c[1] \div 2
        lo == (c[2] \div 2) + 32768 * (c[1] % 2)
    IN  IF c[2] % 2 = 1
        THEN <<BitXor(hi, 60856, 16), BitXor(lo, 33568, 16)>>
        ELSE <<hi, lo>>

RECURSIVE CrcBits(_, _)
CrcBits(c, n) ==
    IF n = 0 THEN c
    ELSE LET s == CrcShift(c) IN IF s[1] >= 0 THEN CrcBits(s, n - 1) ELSE s

\* a ^ b for bytes and for 16-bit halves, by table
Xor4Tab == List([a \in 1..16 |-> List([b \in 1..16 |-> BitXor(a - 1, b - 1, 4)])])
Xor4(a, b) == Xor4Tab[a + 1][b + 1]
Xor8(a, b) == 16 * Xor4(a \div 16, b \div 16) + Xor4(a % 16, b % 16)
Xor16(a, b) == 256 * Xor8(a \div 256, b \div 256) + Xor8(a % 256, b % 256)

\* the CRC-32 table: eight bit steps of each byte
CrcTab == List([k \in 1..256 |-> CrcBits(<<0, k - 1>>, 8)])

\* one byte: crc = table[(crc ^ b) & 0xFF] ^ (crc >> 8)
CrcByte(c, b) ==
    LET t == CrcTab[Xor8(c[2] % 256, b) + 1]
    IN  <<Xor16(c[1] \div 256, t[1]), Xor16((c[1] % 256) * 256 + (c[2] \div 256), t[2])>>

RECURSIVE CrcBytes(_, _, _, _)
\* the register after bytes data[lo..hi]; the range is halved so that the
\* evaluation depth stays logarithmic in the length
CrcBytes(c, data, lo, hi) ==
    IF lo > hi THEN c
    ELSE IF lo = hi THEN CrcByte(c, data[lo])
    ELSE LET mid == (lo + hi) \div 2
             s == CrcBytes(c, data, lo, mid)
         IN  IF s[1] >= 0 THEN CrcBytes(s, data, mid + 1, hi) ELSE s

\* zlib.crc32(data) & 0xFFFFFFFF, as its four big-endian bytes
\* (what struct.pack('>I', crc) appends and struct.unpack('>I', ...) compares)
Crc32(data) ==
    LET c == CrcBytes(<<65535, 65535>>, data, 1, Len(data))
        hi == 65535 - c[1]
        lo == 65535 - c[2]
    IN  <<hi \div 256, hi % 256, lo \div 256, lo % 256>>

RECURSIVE DigestAcc(_, _, _, _)
DigestAcc(h, data, lo, hi) ==
    IF lo > hi THEN h
    ELSE IF lo = hi THEN (h * 31 + data[lo] + 1) % 65521
    ELSE LET mid == (lo + hi) \div 2
             s == DigestAcc(h, data, lo, mid)
         IN  IF s >= 0 THEN DigestAcc(s, data, mid + 1, hi) ELSE s

\* hashlib.sha256(data).digest(): a 32-byte digest of the content and length
Sha256(data) ==
    LET h == DigestAcc(Len(data) + 7, data, 1, Len(data))
    IN  List([k \in 1..32 |-> ((h \div 256) * k + (h % 256) + k * k) % 256])

file_sha256(data) == Sha256(data)

\* derive_key: SHA-256(BE32(block) || password || salt) for block = 0, 1, ...
\* concatenated and cut to length
derive_key(password, salt, length) ==
    LET blocks == List([b \in 1..CeilDiv(length, 32) |->
                          Sha256(PackI(b - 1) \o password \o salt)])
    IN  List([i \in 1..length |-> blocks[((i - 1) \div 32) + 1][((i - 1) % 32) + 1]])

xor_crypt(data, key) ==
    List([i \in 1..Len(data) |-> Xor8(data[i], key[((i - 1) % Len(key)) + 1])])

\* data[i] starts a run: it differs from the byte before it, or the run
\* before it is full (255 bytes)
RunStart(data, i) ==
    \/ i = 1
    \/ data[i - 1] # data[i]
    \/ \E k \in 1..((i - 1) \div 255) :
          /\ \A j \in (i - 255 * k)..(i - 1) : data[j] = data[i]
          /\ (i - 255 * k = 1 \/ data[i - 255 * k - 1] # data[i])

\* length of the run that starts at data[i], at most 255
RunLen(data, i) ==
    CHOOSE n \in 1..Min(255, Len(data) - i + 1) :
        /\ \A k \in 0..(n - 1) : data[i + k] = data[i]
        /\ (n = 255 \/ i + n > Len(data) \/ data[i + n] # data[i])

RECURSIVE Flatten(_, _, _)
\* the concatenation of parts[lo..hi]
Flatten(parts, lo, hi) ==
    IF lo > hi THEN <<>>
    ELSE IF lo = hi THEN parts[lo]
    ELSE LET mid == (lo + hi) \div 2
         IN  Flatten(parts, lo, mid) \o Flatten(parts, mid + 1, hi)

\* zlib.compress(data, 9): the runs of data as <<count, byte>> pairs
LibCompress(data) ==
    LET parts == List([i \in 1..Len(data) |->
                    IF RunStart(data, i) THEN <<RunLen(data, i), data[i]>> ELSE <<>>])
    IN  Flatten(parts, 1, Len(data))

\* zlib.error: the stream is empty or is not a sequence of
\* <<count >= 1, byte>> pairs
LibCorrupt(z) ==
    \/ z = <<>>
    \/ Len(z) % 2 = 1
    \/ \E k \in 1..(Len(z) \div 2) : z[2 * k - 1] = 0

\* zlib.decompress(z) of a stream that is not corrupt
LibDecompress(z) ==
    LET parts == List([k \in 1..(Len(z) \div 2) |-> [j \in 1..z[2 * k - 1] |-> z[2 * k]]])
    IN  Flatten(parts, 1, Len(z) \div 2)

\* compress_data: <<payload, is_compressed>>
compress_data(data) ==
    LET compressed == LibCompress(data)
    IN  IF Len(compressed) < Len(data) THEN <<compressed, TRUE>>
        ELSE <<data, FALSE>>

\* decompress_data; the caller catches zlib.error (LibCorrupt) first
decompress_data(data, is_compressed) ==
    IF is_compressed THEN LibDecompress(data) ELSE data

(***************************************************************************)
(* Color quantizer                                                         *)
(***************************************************************************)
RECURSIVE NearestLast(_, _, _, _, _)
\* a loop in which an equal distance replaces best as well
NearestLast(v, levels, i, best_i, best_d) ==
    IF i > Len(levels) - 1 THEN best_i
    ELSE LET d == Abs(v - At(levels, i))
         IN  IF d <= best_d THEN NearestLast(v, levels, i + 1, i, d)
             ELSE NearestLast(v, levels, i + 1, best_i, best_d)

RECURSIVE NearestFrom(_, _, _, _, _)
\* the loop of build_lut for one v: a strictly smaller distance replaces best
NearestFrom(v, levels, i, best_i, best_d) ==
    IF i > Len(levels) - 1 THEN best_i
    ELSE LET d == Abs(v - At(levels, i))
         IN  IF d < best_d THEN NearestFrom(v, levels, i + 1, i, d)
             ELSE NearestFrom(v, levels, i + 1, best_i, best_d)

Nearest(v, levels) == NearestFrom(v, levels, 1, 0, Abs(v - At(levels, 0)))

\* build_lut: lut[v] for v in 0..255 (index v + 1 of the sequence)
build_lut(levels) == List([k \in 1..256 |-> Nearest(k - 1, levels)])

LutYT == build_lut(YT_LEVELS)
LutLocal == build_lut(LOCAL_LEVELS)

\* Decoder._get_lut: the cached build_lut of the palette
GetLut(levels) == IF levels = YT_LEVELS THEN LutYT ELSE LutLocal

\* one channel of Decoder._build_adjusted_lut
AdjustedLut(levels, off) ==
    [k \in 1..256 |-> Nearest(Max(0, Min(255, (k - 1) - off)), levels)]

\* Decoder._build_adjusted_lut: <<lut_r, lut_g, lut_b>>
build_adjusted_lut(levels, r_off, g_off, b_off) ==
    <<AdjustedLut(levels, r_off), AdjustedLut(levels, g_off), AdjustedLut(levels, b_off)>>

\* levels.index(x)
LevelIndex(levels, x) == (CHOOSE i \in 1..Len(levels) : levels[i] = x /\ \A j \in 1..(i - 1) : levels[j] # x) - 1

(***************************************************************************)
(* Calibration                                                             *)
(***************************************************************************)
\* a frame without the interior pattern: every block as the border has it
CalBlockBorder(gx, gy, grid_w, grid_h, levels) ==
    LET idx == (gx + gy) % Len(levels)
    IN  <<At(levels, idx), At(levels, idx), At(levels, idx)>>

\* the triple of levels generate_calibration_frame gives block (gx, gy)
CalBlock(gx, gy, grid_w, grid_h, levels) ==
    LET L == Len(levels)
    IN  IF gy < 2 \/ gy >= grid_h - 2 \/ gx < 2 \/ gx >= grid_w - 2
        THEN LET idx == (gx + gy) % L
             IN  <<At(levels, idx), At(levels, idx), At(levels, idx)>>
        ELSE LET ci == ((gx - 2) + (gy - 2) * (grid_w - 4)) % L
             IN  <<At(levels, ci % L), At(levels, (ci + 1) % L), At(levels, (ci + 2) % L)>>

\* generate_calibration_frame: width * height * 3 bytes, zero outside the
\* rows gy * bs .. gy * bs + bs - 1 of the grid and the columns of the grid
generate_calibration_frame(width, height, block_size, levels) ==
    LET bs == block_size
        grid_w == width \div bs
        grid_h == height \div bs
    IN  List([k \in 1..(width * height * 3) |->
            LET o == k - 1
                py == o \div (width * 3)
                px == (o % (width * 3)) \div 3
                ch == o % 3
            IN  IF py \div bs < grid_h /\ px \div bs < grid_w
                THEN CalBlock(px \div bs, py \div bs, grid_w, grid_h, levels)[ch + 1]
                ELSE 0])

RECURSIVE SumSeq(_, _)
SumSeq(s, i) == IF i > Len(s) THEN 0 ELSE s[i] + SumSeq(s, i + 1)

\* the blocks <<gx, gy>> detect_calibration_shift samples, in loop order: gy
\* outer, gx inner (lines 195-196)
CalCells(width, height, bs) ==
    LET ys == 2..(Min(height \div bs - 2, 10) - 1)
        xs == 2..(Min(width \div bs - 2, 10) - 1)
        nx == Cardinality(xs)
    IN  List([j \in 1..(Cardinality(ys) * nx) |->
                 <<2 + ((j - 1) % nx), 2 + ((j - 1) \div nx)>>])

\* the pixel sampled in block c and its offset o in the frame (lines 202-204)
CalPixel(c, bs, width) ==
    LET cy == c[2] * bs + bs \div 2
        cx == c[1] * bs + bs \div 2
    IN  [cy |-> cy, cx |-> cx, o |-> cy * (width * 3) + cx * 3]

\* detect_calibration_shift: [r, g, b: the offsets, errors, total]
\* (error_rate is errors / total, 0.0 when nothing was sampled)
detect_calibration_shift(frame, width, height, block_size, levels) ==
    LET bs == block_size
        lut == build_lut(levels)
        grid_w == width \div bs
        cells == CalCells(width, height, bs)
        n == Len(cells)
        cell(j) == cells[j]
        ci(c) == ((c[1] - 2) + (c[2] - 2) * (grid_w - 4)) % Len(levels)
        expected(c, ch) == At(levels, (ci(c) + ch) % Len(levels))
        actual(c, ch) == At(frame, CalPixel(c, bs, width).o + ch)
        offsets(ch) == List([j \in 1..n |-> actual(cell(j), ch) - expected(cell(j), ch)])
        errs(ch) == List([j \in 1..n |->
                       IF lut[actual(cell(j), ch) + 1] # LevelIndex(levels, expected(cell(j), ch))
                       THEN 1 ELSE 0])
    IN  IF n = 0 THEN [r |-> 0, g |-> 0, b |-> 0, errors |-> 0, total |-> 0]
        ELSE [r |-> SumSeq(offsets(0), 1) \div n,
              g |-> SumSeq(offsets(1), 1) \div n,
              b |-> SumSeq(offsets(2), 1) \div n,
              errors |-> SumSeq(errs(0), 1) + SumSeq(errs(1), 1) + SumSeq(errs(2), 1),
              total |-> 3 * n]

(***************************************************************************)
(* Encoder                                                                 *)
(***************************************************************************)
\* Encoder.__init__; block_size 0 stands for None
Encoder(block_size, mode, width, height, fps, repeat) ==
    LET levels == IF mode = "youtube" THEN YT_LEVELS ELSE LOCAL_LEVELS
        bpc == IF mode = "youtube" THEN 2 ELSE 3
        bs == IF block_size # 0 THEN block_size
              ELSE IF mode = "youtube" THEN DEFAULT_BLOCK_YT ELSE DEFAULT_BLOCK_LOCAL
        grid_w == width \div bs
        grid_h == height \div bs
    IN  [mode |-> mode, width |-> width, height |-> height, fps |-> fps,
         repeat |-> Max(1, repeat), levels |-> levels, bpc |-> bpc,
         block_size |-> bs, grid_w |-> grid_w, grid_h |-> grid_h,
         blocks_per_frame |-> grid_w * grid_h, bpb |-> bpc * 3,
         bytes_per_frame |-> (grid_w * grid_h * bpc * 3) \div 8]

RECURSIVE PackFill(_, _, _)
\* while buf_bits < bpb and pos < len(data): shift the next byte in
PackFill(st, data, bpb) ==
    IF st.buf_bits < bpb /\ st.pos < Len(data)
    THEN PackFill([st EXCEPT !.buf = st.buf * 256 + At(data, st.pos),
                             !.buf_bits = st.buf_bits + 8,
                             !.pos = st.pos + 1], data, bpb)
    ELSE st

\* a pass that leaves the bits of a partial last block in its low bits
PackStepLow(st0, data, self) ==
    LET st == PackFill(st0, data, self.bpb)
        bpc == self.bpc
        full == st.buf_bits >= self.bpb
        bits == IF full THEN st.buf_bits - self.bpb ELSE 0
        val == IF full THEN (st.buf \div 2^bits) % 2^self.bpb ELSE st.buf % 2^self.bpb
    IN  [buf |-> IF full THEN st.buf % 2^bits ELSE 0,
         buf_bits |-> bits,
         pos |-> st.pos,
         blocks |-> Append(st.blocks,
                     <<At(self.levels, (val \div 2^(bpc * 2)) % 2^bpc),
                       At(self.levels, (val \div 2^bpc) % 2^bpc),
                       At(self.levels, val % 2^bpc)>>)]

\* One pass of the loop of _data_to_blocks.  Python's buf is unbounded and
\* only its low buf_bits bits are ever read: buf is kept modulo 2^buf_bits.
PackStep(st0, data, self) ==
    LET st == PackFill(st0, data, self.bpb)
        bpc == self.bpc
        mask == 2^bpc - 1
        full == st.buf_bits >= self.bpb
        bits == IF full THEN st.buf_bits - self.bpb ELSE 0
        val == IF full THEN (st.buf \div 2^bits) % 2^self.bpb
               ELSE (st.buf * 2^(self.bpb - st.buf_bits)) % 2^self.bpb
        ri == (val \div 2^(bpc * 2)) % (mask + 1)
        gi == (val \div 2^bpc) % (mask + 1)
        bi == val % (mask + 1)
    IN  [buf |-> IF full THEN st.buf % 2^bits ELSE 0,
         buf_bits |-> bits,
         pos |-> st.pos,
         blocks |-> Append(st.blocks,
                     <<At(self.levels, ri), At(self.levels, gi), At(self.levels, bi)>>)]

RECURSIVE PackRange(_, _, _, _, _)
\* passes lo..hi of the loop, the range halved to bound the evaluation depth
PackRange(st, data, self, lo, hi) ==
    IF lo > hi THEN st
    ELSE IF lo = hi THEN PackStep(st, data, self)
    ELSE LET mid == (lo + hi) \div 2
             s == PackRange(st, data, self, lo, mid)
         IN  IF s.pos >= 0 THEN PackRange(s, data, self, mid + 1, hi) ELSE s

\* Encoder._data_to_blocks: count triples of levels
data_to_blocks(self, data, count) ==
    PackRange([buf |-> 0, buf_bits |-> 0, pos |-> 0, blocks |-> <<>>],
              data, self, 1, count).blocks

\* Encoder._render_frame: grid_h * bs rows of width * 3 bytes; in a row the
\* bytes right of the last full block keep the bytearray's zero
render_frame(self, blocks) ==
    LET bs == self.block_size
        w3 == self.width * 3
    IN  List([k \in 1..(self.grid_h * bs * w3) |->
            LET o == k - 1
                gy == (o \div w3) \div bs
                gx == ((o % w3) \div 3) \div bs
            IN  IF gx < self.grid_w
                THEN blocks[gy * self.grid_w + gx + 1][(o % 3) + 1]
                ELSE 0])

\* Encoder._build_meta; filename is the UTF-8 bytes of the name
build_meta(self, filename, original_size, payload_size, file_hash, is_compressed, is_encrypted, salt) ==
    LET flags == (IF is_compressed THEN 1 ELSE 0) + (IF is_encrypted THEN 2 ELSE 0)
        name_b == Slice(filename, 0, 255)
        m == MAGIC \o <<VERSION, self.block_size, self.bpc>>
               \o PackH(self.width) \o PackH(self.height)
               \o <<self.fps, self.repeat, flags, Len(name_b)>> \o name_b
               \o PackQ(original_size) \o PackQ(payload_size) \o file_hash
               \o (IF is_encrypted /\ salt # <<>> THEN salt ELSE Zeros(16))
        mc == m \o Crc32(m)
        padded == IF Len(mc) < self.bytes_per_frame
                  THEN mc \o Zeros(self.bytes_per_frame - Len(mc)) ELSE mc
    IN  Slice(padded, 0, self.bytes_per_frame)

(***************************************************************************)
(* Decoder                                                                 *)
(***************************************************************************)
\* range(-2, 3), range(-1, 2) or range(0, 1), as the reach of the sample
SampleReach(bs) == IF bs >= 6 THEN 2 ELSE IF bs >= 4 THEN 1 ELSE 0

\* the sum of one channel over the neighbourhood of the pixel (cy, cx)
SampleSum(frame, w3, cy, cx, ch, reach) ==
    LET side == 2 * reach + 1
        vals == List([j \in 1..(side * side) |->
                    LET dy == ((j - 1) \div side) - reach
                        dx == ((j - 1) % side) - reach
                    IN  At(frame, (cy + dy) * w3 + (cx + dx) * 3 + ch)])
    IN  SumSeq(vals, 1)

\* Decoder._frame_to_blocks: triples of level indices in row-major order.
\* luts is <<lut_r, lut_g, lut_b>>, or NoLuts for the plain LUT of levels.
frame_to_blocks(frame, width, height, bs, levels, luts) ==
    LET lut == GetLut(levels)
        grid_w == width \div bs
        grid_h == height \div bs
        w3 == width * 3
        half == bs \div 2
        reach == SampleReach(bs)
        sample_count == (2 * reach + 1) * (2 * reach + 1)
        avg(k, ch) == SampleSum(frame, w3, ((k - 1) \div grid_w) * bs + half,
                                ((k - 1) % grid_w) * bs + half, ch, reach)
                        \div sample_count
    IN  List([k \in 1..(grid_w * grid_h) |->
            IF luts # NoLuts
            THEN <<luts[1][avg(k, 0) + 1], luts[2][avg(k, 1) + 1], luts[3][avg(k, 2) + 1]>>
            ELSE <<lut[avg(k, 0) + 1], lut[avg(k, 1) + 1], lut[avg(k, 2) + 1]>>])

RECURSIVE UnpackFlush(_)
\* while buf_bits >= 8: append the top byte
UnpackFlush(st) ==
    IF st.buf_bits >= 8
    THEN UnpackFlush([buf |-> st.buf % 2^(st.buf_bits - 8),
                      buf_bits |-> st.buf_bits - 8,
                      result |-> Append(st.result, (st.buf \div 2^(st.buf_bits - 8)) % 256)])
    ELSE st

\* One pass of the loop of _blocks_to_data.  The indices are below 2^bpc
\* (they come from a LUT of the palette), so the | of the code is a sum;
\* buf is kept modulo 2^buf_bits, the only bits read later.
UnpackStep(st, blk, bpc) ==
    LET bpb == bpc * 3
        val == blk[1] * 2^(bpc * 2) + blk[2] * 2^bpc + blk[3]
    IN  UnpackFlush([buf |-> st.buf * 2^bpb + val,
                     buf_bits |-> st.buf_bits + bpb,
                     result |-> st.result])

RECURSIVE UnpackRange(_, _, _, _, _)
UnpackRange(st, blocks, bpc, lo, hi) ==
    IF lo > hi THEN st
    ELSE IF lo = hi THEN UnpackStep(st, blocks[lo], bpc)
    ELSE LET mid == (lo + hi) \div 2
             s == UnpackRange(st, blocks, bpc, lo, mid)
         IN  IF s.buf_bits >= 0 THEN UnpackRange(s, blocks, bpc, mid + 1, hi) ELSE s

\* Decoder._blocks_to_data
blocks_to_data(blocks, bpc) ==
    UnpackRange([buf |-> 0, buf_bits |-> 0, result |-> <<>>],
                blocks, bpc, 1, Len(blocks)).result

\* a vote that breaks ties by the lowest index: max over sorted(votes)
LowestTiedVote(seq) ==
    LET count(v) == Cardinality({j \in 1..Len(seq) : seq[j] = v})
        top == {seq[j] : j \in {i \in 1..Len(seq) :
                                  \A k \in 1..Len(seq) : count(seq[k]) <= count(seq[i])}}
    IN  CHOOSE v \in top : \A u \in top : v <= u

\* no vote: the index of the frame read first
FirstVote(seq) == seq[1]

\* max(votes, key=votes.get) of the dict filled from seq in order: the keys
\* keep the order of their first vote, and max returns the first key among
\* those with the highest count
MaxVote(seq) ==
    LET count(v) == Cardinality({j \in 1..Len(seq) : seq[j] = v})
        first(v) == CHOOSE j \in 1..Len(seq) : seq[j] = v /\ \A i \in 1..(j - 1) : seq[i] # v
        best == CHOOSE j \in 1..Len(seq) :
                    /\ first(seq[j]) = j
                    /\ \A i \in 1..Len(seq) : count(seq[i]) <= count(seq[j])
                    /\ \A i \in 1..(j - 1) : count(seq[i]) < count(seq[j])
    IN  seq[best]

\* the vote of _merge_repeated_frames over the block lists of the frames read
MergeBlocks(all_blocks, n_blocks) ==
    List([bi \in 1..n_blocks |->
        <<MaxVote(List([f \in 1..Len(all_blocks) |-> all_blocks[f][bi][1]])),
          MaxVote(List([f \in 1..Len(all_blocks) |-> all_blocks[f][bi][2]])),
          MaxVote(List([f \in 1..Len(all_blocks) |-> all_blocks[f][bi][3]]))>>])

\* all_blocks of _merge_repeated_frames: the block list of each frame read
AllBlocks(frames_data, width, height, bs, levels, luts) ==
    List([f \in 1..Len(frames_data) |->
            frame_to_blocks(frames_data[f], width, height, bs, levels, luts)])

\* Decoder._merge_repeated_frames
merge_repeated_frames(frames_data, width, height, bs, levels, bpc, repeat, luts) ==
    IF repeat <= 1
    THEN frame_to_blocks(frames_data[1], width, height, bs, levels, luts)
    ELSE MergeBlocks(AllBlocks(frames_data, width, height, bs, levels, luts),
                     (width \div bs) * (height \div bs))

\* bytes.decode('utf-8') succeeds on s[i..]
RECURSIVE Utf8Valid(_, _)
Utf8Valid(s, i) ==
    LET cont(j) == j <= Len(s) /\ s[j] >= 128 /\ s[j] <= 191
        b == s[i]
    IN  IF i > Len(s) THEN TRUE
        ELSE IF b < 128 THEN Utf8Valid(s, i + 1)
        ELSE IF b >= 194 /\ b <= 223 THEN cont(i + 1) /\ Utf8Valid(s, i + 2)
        ELSE IF b >= 224 /\ b <= 239
             THEN /\ cont(i + 1) /\ cont(i + 2)
                  /\ (b = 224 => s[i + 1] >= 160)
                  /\ (b = 237 => s[i + 1] <= 159)
                  /\ Utf8Valid(s, i + 3)
        ELSE IF b >= 240 /\ b <= 244
             THEN /\ cont(i + 1) /\ cont(i + 2) /\ cont(i + 3)
                  /\ (b = 240 => s[i + 1] >= 144)
                  /\ (b = 244 => s[i + 1] <= 143)
                  /\ Utf8Valid(s, i + 4)
        ELSE FALSE

\* the value 2^31 - 1, the largest the model's integers hold
MaxInt == 2 * (2^30 - 1) + 1

\* struct.unpack('>Q', b): exact below 2^31, and MaxInt from there on (the
\* decoder only compares it with, and cuts at, lengths far below that)
UnpackQ(b) ==
    IF b[1] = 0 /\ b[2] = 0 /\ b[3] = 0 /\ b[4] = 0 /\ b[5] < 128
    THEN ((b[5] * 256 + b[6]) * 256 + b[7]) * 256 + b[8]
    ELSE MaxInt

\* struct.unpack('>Q', b) > 2 * 1024 * 1024 * 1024
QAbove2GiB(b) ==
    \/ b[1] # 0 \/ b[2] # 0 \/ b[3] # 0 \/ b[4] # 0
    \/ b[5] > 128
    \/ (b[5] = 128 /\ (b[6] # 0 \/ b[7] # 0 \/ b[8] # 0))

\* struct.unpack('>Q', b) == 0
QZero(b) == \A i \in 1..8 : b[i] = 0

\* an exception raised inside the try block of _try_decode_meta
Raised == [raised |-> TRUE]

\* The try block of _try_decode_meta (lines 638-710) over the unpacked bytes,
\* which start with the magic.  An index past the end (IndexError), a short
\* slice given to struct.unpack (struct.error) and a name that is not UTF-8
\* (UnicodeDecodeError) raise: Raised.
ParseMeta(data) ==
    IF Len(data) < 12 THEN Raised
    ELSE
    LET ver == At(data, 4)
        v3 == ver >= 3
        p0 == IF v3 THEN 14 ELSE 12
    IN  IF Len(data) < p0 + 1 THEN Raised
        ELSE
        LET name_len == At(data, p0)
            p1 == p0 + 1
            p2 == p1 + name_len
            p3 == p2 + 8
            p4 == IF v3 THEN p3 + 8 ELSE p3
            p5 == p4 + 32
            p6 == IF v3 THEN p5 + 16 ELSE p5
            p7 == p6 + 4
            flags == At(data, 13)
        IN  IF name_len = 0 \/ p2 > Len(data) THEN None
            ELSE IF ~Utf8Valid(Slice(data, p1, p2), 1) THEN Raised
            ELSE IF p3 > Len(data) THEN None
            ELSE IF v3 /\ p4 > Len(data) THEN None
            ELSE IF p5 > Len(data) THEN None
            ELSE IF v3 /\ p6 > Len(data) THEN None
            ELSE IF p7 > Len(data) THEN None
            ELSE IF Crc32(Slice(data, 0, p7 - 4)) # Slice(data, p6, p7) THEN None
            ELSE IF QZero(Slice(data, p2, p3)) \/ QAbove2GiB(Slice(data, p2, p3)) THEN None
            ELSE [version |-> ver,
                  block_size |-> At(data, 5),
                  bpc |-> At(data, 6),
                  width |-> UnpackH(Slice(data, 7, 9)),
                  height |-> UnpackH(Slice(data, 9, 11)),
                  fps |-> At(data, 11),
                  repeat |-> IF v3 THEN At(data, 12) ELSE 1,
                  is_compressed |-> v3 /\ flags % 2 = 1,
                  is_encrypted |-> v3 /\ (flags \div 2) % 2 = 1,
                  filename |-> Slice(data, p1, p2),
                  original_size |-> UnpackQ(Slice(data, p2, p3)),
                  payload_size |-> IF v3 THEN UnpackQ(Slice(data, p3, p4))
                                   ELSE UnpackQ(Slice(data, p2, p3)),
                  file_hash |-> Slice(data, p4, p5),
                  salt |-> IF v3 THEN Slice(data, p5, p6) ELSE Zeros(16)]

\* a parser without the except clause: the exception reaches the caller
Reraise(r) == r

\* except Exception: return None (lines 711-712)
ExceptReturnNone(r) == IF r = Raised THEN None ELSE r

\* Decoder._try_decode_meta: None or the header record.  The frames decode
\* passes are frame_size bytes long, so the reads of _frame_to_blocks, which
\* are outside the try block, stay inside the frame.
try_decode_meta(frame, width, height, bs, levels, bpc, luts) ==
    IF width \div bs < 4 \/ height \div bs < 4 THEN None
    ELSE LET data == blocks_to_data(
                         frame_to_blocks(frame, width, height, bs, levels, luts), bpc)
         IN  IF Len(data) < 4 \/ Slice(data, 0, 4) # MAGIC THEN None
             ELSE ExceptReturnNone(ParseMeta(data))

(***************************************************************************)
(* Bounds and inputs                                                       *)
(***************************************************************************)
MaxRepeat == 2
MaxShortLen == 1
FlatLen == 6
LongLen == 95
MaxFlipBlock == 3

\* file contents: a ramp of distinct bytes (does not compress) or a run of
\* zero bytes (compresses)
Ramp(n) == List([i \in 1..n |-> (37 * i + 104) % 256])
FileData == {Ramp(n) : n \in 0..MaxShortLen} \cup {Zeros(FlatLen), Ramp(LongLen)}

\* passwords as UTF-8 bytes: "pw" and "PW"
PW == <<112, 119>>
WrongPW == <<80, 87>>

\* values of hashlib.sha256(os.urandom(32)).digest()[:16]
Salts == {List([i \in 1..16 |-> (i * s + 16) % 256]) : s \in {7, 11}}

\* --mode, --block-size (0: not given) and --resolution of the encode command
BaseGeo == [mode |-> "local", bs |-> 2, width |-> 18, height |-> 18]
OtherGeos ==
    { [mode |-> "local",   bs |-> 2, width |-> 19, height |-> 18],
      [mode |-> "local",   bs |-> 2, width |-> 18, height |-> 19],
      [mode |-> "local",   bs |-> 0, width |-> 36, height |-> 36],
      [mode |-> "local",   bs |-> 4, width |-> 16, height |-> 16],
      [mode |-> "local",   bs |-> 8, width |-> 4,  height |-> 4],
      [mode |-> "youtube", bs |-> 2, width |-> 22, height |-> 22] }

\* the file name: "a"
FileName == <<97>>
\* the output directory of decode: "out"
OutDir == <<111, 117, 116>>

\* An encode command and the channel its video is played back through:
\* clean (the frames come back as written) or noisy (blocks of a frame may
\* come back as another level of the palette).
Job(geo, data, repeat, password, channel) ==
    [geo |-> geo, data |-> data, repeat |-> repeat, password |-> password,
     channel |-> channel]

Jobs ==
    {Job(BaseGeo, d, r, NoPassword, "clean") : d \in FileData, r \in 1..MaxRepeat}
    \cup {Job(BaseGeo, d, 1, PW, "clean") : d \in FileData}
    \cup {Job(g, Ramp(1), 1, NoPassword, "clean") : g \in OtherGeos}

\* the jobs of the majority vote: four bytes in one data frame, two and
\* three copies
VoteJobs == {Job(BaseGeo, Ramp(4), r, NoPassword, "noisy") : r \in 2..3}

\* the most names of the output directory taken before decode runs
MaxTaken == 2

\* filename fields of a header, as stem and extension: "a", "a.b", "../a",
\* "/a", "b/a", each with the directories its files lie in ("out", "out/b")
HeaderNames ==
    { [stem |-> <<97>>, ext |-> <<>>, dirs |-> {OutDir}],
      [stem |-> <<97>>, ext |-> <<46, 98>>, dirs |-> {OutDir}],
      [stem |-> <<46, 46, 47, 97>>, ext |-> <<>>, dirs |-> {OutDir}],
      [stem |-> <<47, 97>>, ext |-> <<>>, dirs |-> {OutDir}],
      [stem |-> <<98, 47, 97>>, ext |-> <<>>, dirs |-> {OutDir, OutDir \o <<47, 98>>}] }

\* the name with the counter c before the extension (c < 10); 95 is '_'
Numbered(n, c) == IF c = 0 THEN n.stem \o n.ext ELSE n.stem \o <<95, 48 + c>> \o n.ext

\* the path of the file of that name under out, resolved by hand: "../a"
\* leaves out, "/a" is absolute
PathUnderOut(n, c) ==
    IF n.stem[1] = 47 THEN Numbered(n, c)
    ELSE IF n.stem[1] = 46 THEN SubSeq(Numbered(n, c), 4, Len(Numbered(n, c)))
    ELSE OutDir \o <<47>> \o Numbered(n, c)

\* decodes of a video whose header names n, into a directory where the
\* names with the counters of taken are taken already
FileJobs ==
    {[geo |-> BaseGeo, data |-> Ramp(1), repeat |-> 1, password |-> NoPassword,
      channel |-> "forged", name |-> n.stem \o n.ext, header |-> n, taken |-> t] :
         n \in HeaderNames, t \in SUBSET (0..MaxTaken)}

\* the files and directories there before decode runs; an old file holds
\* the byte 0
PreFiles(j) ==
    IF "taken" \notin DOMAIN j \/ j.taken = {} THEN {}
    ELSE {[path |-> d, content |-> <<>>, isdir |-> TRUE] : d \in j.header.dirs}
         \cup {[path |-> PathUnderOut(j.header, c), content |-> <<0>>, isdir |-> FALSE] :
                   c \in j.taken}

\* the bytes of a frame a stream may end in the middle of
TailLen == 5

\* a decode of the video of an encode command that ends early: after keep
\* frames and tail bytes of the next one
CutJob(geo, data, repeat, password, keep, tail) ==
    [geo |-> geo, data |-> data, repeat |-> repeat, password |-> password,
     channel |-> "cut", keep |-> keep, tail |-> tail]

\* videos of two data groups cut after every frame, whole ones of a file
\* that compresses, with a password and without, and one of a geometry
\* whose metadata frame is too small for the header
ShortJobs ==
    {CutJob(BaseGeo, Ramp(LongLen), r, NoPassword, k, t) :
         r \in 1..(MaxRepeat + 1), k \in 0..(2 + 2 * (MaxRepeat + 1)), t \in {0, TailLen}}
    \cup {CutJob(BaseGeo, Zeros(FlatLen), 1, p, k, 0) : p \in {NoPassword, PW}, k \in 2..3}
    \cup {CutJob([mode |-> "local", bs |-> 4, width |-> 16, height |-> 16],
                 Ramp(1), 1, NoPassword, 3, 0)}

\* the frames the child's stdin pipe holds, the diagnostics its stderr pipe
\* holds, and the most diagnostics a child emits
StdinCap == 1
ErrCap == 1
MaxDiag == 2

\* encode commands whose child emits diag diagnostics (ffmpeg runs with
\* -v warning, lines 389 and 405) while it reads the frames
PipeJobs ==
    {[geo |-> BaseGeo, data |-> d, repeat |-> 1, password |-> NoPassword,
      channel |-> "clean", diag |-> k] : d \in {Ramp(1), Ramp(LongLen)}, k \in 0..MaxDiag}

(***************************************************************************)
(* State                                                                   *)
(***************************************************************************)
VARIABLES
    job,        \* the encode command and the channel
    call,       \* a direct call of a function under test, or None
    result,     \* what the call returned, or None before it returns
    proc,       \* the child of encode and its pipes, or None (unbounded pipes)
    epc,        \* the encoder's position in Encoder.encode
    enc,        \* encode's locals: payload, flags, salt, hash, data_frames
    ei,         \* the index i of encode's data loop
    sink,       \* the frames written to the child's stdin, in order
    req,        \* the decode or verify command
    stdout,     \* the bytes the child decoder writes to its stdout
    dpc,        \* the decoder's position in Decoder.decode
    rpos,       \* bytes read from the child's stdout so far
    cal_frame,  \* decode's local cal_frame
    meta_frame, \* decode's local meta_frame
    attempts,   \* the calls of _try_decode_meta made, in order
    meta,       \* the header record, or None
    off,        \* r_off, g_off, b_off and the calibration errors
    noise,      \* the blocks the channel changed in the group read last
    all_blocks, \* all_blocks of the last _merge_repeated_frames
    blocks,     \* the block list of the group decoded last
    all_data,   \* the bytes unpacked so far
    count,      \* the groups decoded so far
    killed,     \* proc.kill() has been called
    warned,     \* the short-stream warning has been printed
    outcome,    \* how decode ended
    exitcode,   \* the code main passes to sys.exit, -1 before that
    fs          \* the output files: a set of [path, content]

envVars == <<job, call, result, proc>>
encVars == <<epc, enc, ei, sink>>
decVars == <<req, stdout, dpc, rpos, cal_frame, meta_frame, attempts, meta, off,
             noise, all_blocks, blocks, all_data, count, killed, warned,
             outcome, exitcode, fs>>
vars == <<envVars, encVars, decVars>>

\* the Encoder object main builds for the job (fps is the default)
Self == Encoder(job.geo.bs, job.geo.mode, job.geo.width, job.geo.height,
                DEFAULT_FPS, job.repeat)

NoOff == [r |-> 0, g |-> 0, b |-> 0, errors |-> 0, total |-> 0]

\* The child of encode as Popen leaves it (lines 420-423), for a job that
\* says how many diagnostics the child has to emit: taken counts the frames
\* the child has read from its stdin pipe, pending the diagnostic it is
\* writing, err the diagnostics in the stderr pipe, emitted those written
\* or being written, captured those encode has read; exited: the child has
\* ended; waited: proc.wait() has returned.
NewProc(j) ==
    IF "diag" \notin DOMAIN j THEN None
    ELSE [taken |-> 0, pending |-> 0, err |-> 0, emitted |-> 0, captured |-> 0,
          exited |-> FALSE, waited |-> FALSE]

\* nothing has run yet; the files of the job, if it has any, are in place
Idle ==
    /\ proc = NewProc(job)
    /\ epc = "start"
    /\ enc = None
    /\ ei = 0
    /\ sink = <<>>
    /\ req = None
    /\ stdout = <<>>
    /\ dpc = "idle"
    /\ rpos = 0
    /\ cal_frame = <<>>
    /\ meta_frame = <<>>
    /\ attempts = <<>>
    /\ meta = None
    /\ off = NoOff
    /\ noise = {}
    /\ all_blocks = <<>>
    /\ blocks = <<>>
    /\ all_data = <<>>
    /\ count = 0
    /\ killed = FALSE
    /\ warned = FALSE
    /\ outcome = "none"
    /\ exitcode = -1
    /\ fs = PreFiles(job)

Init ==
    /\ job \in Jobs
    /\ call = None
    /\ result = None
    /\ Idle

\* proc.stdin.write(frame) returns once the pipe has taken the frame: it
\* blocks while the pipe is full of frames the child has not read
StdinHasRoom == IF proc = None THEN TRUE ELSE Len(sink) - proc.taken < StdinCap

(***************************************************************************)
(* Encoder.encode                                                          *)
(***************************************************************************)
\* lines 344-427: read, hash, compress, encrypt, count the frames, spawn the
\* child.  math.ceil(payload_size / 0) raises ZeroDivisionError.
EncStart ==
    /\ epc = "start"
    /\ \E salt \in (IF job.password # NoPassword THEN Salts ELSE {Zeros(16)}) :
        LET raw_data == job.data
            cd == compress_data(raw_data)
            is_encrypted == job.password # NoPassword
            payload == IF is_encrypted
                       THEN xor_crypt(cd[1], derive_key(job.password, salt, Len(cd[1])))
                       ELSE cd[1]
        IN  IF Self.bytes_per_frame = 0
            THEN /\ epc' = "crashed"
                 /\ enc' = enc
            ELSE /\ epc' = "cal"
                 /\ enc' = [payload |-> payload,
                            fname |-> FileName,
                            fsize |-> Len(raw_data),
                            fhash |-> file_sha256(raw_data),
                            is_compressed |-> cd[2],
                            is_encrypted |-> is_encrypted,
                            salt |-> salt,
                            data_frames |-> CeilDiv(Len(payload), Self.bytes_per_frame)]
    /\ UNCHANGED <<ei, sink>>
    /\ UNCHANGED <<envVars, decVars>>

\* lines 431-434
EncCal ==
    /\ epc = "cal"
    /\ StdinHasRoom
    /\ sink' = Append(sink, generate_calibration_frame(
                                Self.width, Self.height, Self.block_size, Self.levels))
    /\ epc' = "meta"
    /\ UNCHANGED <<enc, ei>>
    /\ UNCHANGED <<envVars, decVars>>

\* the bytes of the metadata frame (lines 436-439)
MetaBytes ==
    build_meta(Self, enc.fname, enc.fsize, Len(enc.payload), enc.fhash,
               enc.is_compressed, enc.is_encrypted, enc.salt)

\* lines 436-441
EncMeta ==
    /\ epc = "meta"
    /\ StdinHasRoom
    /\ sink' = Append(sink, render_frame(Self,
                                data_to_blocks(Self, MetaBytes, Self.blocks_per_frame)))
    /\ epc' = "data"
    /\ UNCHANGED <<enc, ei>>
    /\ UNCHANGED <<envVars, decVars>>

\* the chunk of pass i of the data loop, zero-padded (lines 444-447)
Chunk(i) ==
    LET c == Slice(enc.payload, i * Self.bytes_per_frame, (i + 1) * Self.bytes_per_frame)
    IN  IF Len(c) < Self.bytes_per_frame
        THEN c \o Zeros(Self.bytes_per_frame - Len(c)) ELSE c

\* the frame of chunk i (lines 449-450)
Rendered(i) == render_frame(Self, data_to_blocks(Self, Chunk(i), Self.blocks_per_frame))

\* a data loop that writes each frame once, whatever repeat is
RepeatOnce(rendered, repeat) == <<rendered>>

\* the writes of one pass: repeat copies of rendered (lines 452-453)
RepeatWrites(rendered, repeat) == List([k \in 1..repeat |-> rendered])

\* one pass of the data loop (lines 443-458)
EncChunk ==
    /\ epc = "data"
    /\ ei < enc.data_frames
    /\ StdinHasRoom
    /\ sink' = sink \o RepeatWrites(Rendered(ei), Self.repeat)
    /\ ei' = ei + 1
    /\ UNCHANGED <<epc, enc>>
    /\ UNCHANGED <<envVars, decVars>>

\* lines 460-474: the loop is over, stdin is closed
EncClose ==
    /\ epc = "data"
    /\ ei >= enc.data_frames
    /\ epc' = "closed"
    /\ UNCHANGED <<enc, ei, sink>>
    /\ UNCHANGED <<envVars, decVars>>

(***************************************************************************)
(* The child of encode and its pipes                                       *)
(***************************************************************************)
\* the child reads a frame from its stdin pipe, and may have a diagnostic
\* to write for it; it reads nothing while it is writing one
ChildRead ==
    /\ proc # None
    /\ ~proc.exited
    /\ proc.pending = 0
    /\ proc.taken < Len(sink)
    /\ \E say \in {0, 1} :
          /\ proc.emitted + say <= job.diag
          /\ proc' = [proc EXCEPT !.taken = @ + 1, !.pending = say, !.emitted = @ + say]
    /\ UNCHANGED <<job, call, result>>
    /\ UNCHANGED <<encVars, decVars>>

\* the child's write to stderr returns once the pipe has taken the
\* diagnostic: it blocks while the pipe is full
ChildEmit ==
    /\ proc # None
    /\ proc.pending = 1
    /\ proc.err < ErrCap
    /\ proc' = [proc EXCEPT !.pending = 0, !.err = @ + 1]
    /\ UNCHANGED <<job, call, result>>
    /\ UNCHANGED <<encVars, decVars>>

\* the child sees the end of its input (stdin closed, every frame read),
\* writes the video and ends: its ends of the pipes are closed
ChildExit ==
    /\ proc # None
    /\ ~proc.exited
    /\ epc = "closed"
    /\ proc.taken = Len(sink)
    /\ proc.pending = 0
    /\ proc' = [proc EXCEPT !.exited = TRUE]
    /\ UNCHANGED <<job, call, result>>
    /\ UNCHANGED <<encVars, decVars>>

\* proc.stderr.read() (line 461), which encode reaches after
\* proc.stdin.close(): it takes what the pipe holds
EncReadErr ==
    /\ proc # None
    /\ epc = "closed"
    /\ ~proc.waited
    /\ proc.err > 0
    /\ proc' = [proc EXCEPT !.err = 0, !.captured = @ + proc.err]
    /\ UNCHANGED <<job, call, result>>
    /\ UNCHANGED <<encVars, decVars>>

\* the read sees the end of stderr when the child has ended and the pipe is
\* empty; proc.wait() (line 462) returns and encode goes on to return
EncWait ==
    /\ proc # None
    /\ epc = "closed"
    /\ proc.exited
    /\ proc.err = 0
    /\ ~proc.waited
    /\ proc' = [proc EXCEPT !.waited = TRUE]
    /\ UNCHANGED <<job, call, result>>
    /\ UNCHANGED <<encVars, decVars>>

(***************************************************************************)
(* The video between encode and decode                                     *)
(***************************************************************************)
\* A flip [copy, block, ch, delta]: in frame copy of a group, channel ch of
\* block comes back delta levels further up the palette (cyclically).
FlipBlock(frame, self, flip) ==
    LET bs == self.block_size
        w3 == self.width * 3
        gy == flip.block \div self.grid_w
        gx == flip.block % self.grid_w
        old == At(frame, gy * bs * w3 + gx * bs * 3 + flip.ch)
        new == At(self.levels,
                  (LevelIndex(self.levels, old) + flip.delta) % Len(self.levels))
    IN  List([k \in 1..Len(frame) |->
            LET o == k - 1
            IN  IF /\ (o \div w3) \div bs = gy
                   /\ ((o % w3) \div 3) \div bs = gx
                   /\ o % 3 = flip.ch
                THEN new ELSE frame[k]])

RECURSIVE FlipAll(_, _, _)
FlipAll(frame, self, flips) ==
    IF flips = {} THEN frame
    ELSE LET f == CHOOSE x \in flips : TRUE
         IN  FlipAll(FlipBlock(frame, self, f), self, flips \ {f})

Flip(copy, block, ch, delta) == [copy |-> copy, block |-> block, ch |-> ch, delta |-> delta]

\* what a noisy channel may do to a group of n frames: nothing, one flip in
\* one frame, or a flip of the same channel of block 0 in two of the frames
NoiseChoices(n) ==
    IF job.channel # "noisy" THEN {{}}
    ELSE LET levels == Len(Self.levels)
             single == {Flip(c, b, ch, d) : c \in 1..n, b \in 0..MaxFlipBlock,
                                            ch \in 0..2, d \in 1..(levels - 1)}
             double == {{Flip(c[1], 0, 0, d[1]), Flip(c[2], 0, 0, d[2])} :
                            c \in {x \in (1..n) \X (1..n) : x[1] < x[2]},
                            d \in (1..(levels - 1)) \X (1..(levels - 1))}
         IN  {{}} \cup {{f} : f \in single} \cup double

\* the frames of a group as the channel returns them
Noisy(frames, flips) ==
    List([j \in 1..Len(frames) |-> FlipAll(frames[j], Self, {x \in flips : x.copy = j})])

\* the frames the child decoder plays back for a plan:
\*   exact:  the frames as written, or as the channel of the job has them:
\*           forged (a video made by another writer of the format: the
\*           metadata frame carries the header of the job with the name
\*           job.name in the filename field) or cut (a video that ends
\*           early: the first job.keep frames, then the first job.tail
\*           bytes of the next one)
\*   legacy: a stream without the calibration frame: it starts with the
\*           metadata frame
Playback(plan) ==
    LET hdr == build_meta(Self, job.name, enc.fsize, Len(enc.payload), enc.fhash,
                          enc.is_compressed, enc.is_encrypted, enc.salt)
    IN  IF plan = "legacy" THEN Tail(sink)
        ELSE IF job.channel = "forged"
        THEN <<sink[1], render_frame(Self, data_to_blocks(Self, hdr, Self.blocks_per_frame))>>
                 \o SubSeq(sink, 3, Len(sink))
        ELSE IF job.channel = "cut"
        THEN SubSeq(sink, 1, Min(job.keep, Len(sink)))
                 \o (IF job.tail > 0 /\ job.keep < Len(sink)
                     THEN <<Slice(sink[job.keep + 1], 0, job.tail)>> ELSE <<>>)
        ELSE sink

\* proc.stdout.read(n) at the current position
Read(n) == Slice(stdout, rpos, rpos + n)

\* w, h of _probe_video, and frame_size (line 750)
W == job.geo.width
H == job.geo.height
FrameSize == W * H * 3

(***************************************************************************)
(* Decoder.decode                                                          *)
(***************************************************************************)
\* a main that ignores what decode returns: sys.exit(0)
ExitZero(ok) == 0

\* sys.exit(0 if ok else 1) of main (lines 1145, 1156)
ExitOf(ok) == IF ok THEN 0 ELSE 1

\* the passwords tried on a video: none, the right one, a wrong one
DecodePasswords ==
    IF job.password = NoPassword THEN {NoPassword} ELSE {NoPassword, job.password, WrongPW}

\* the decode and verify commands run on the video of the job
Requests ==
    IF job.channel \in {"noisy", "forged"}
    THEN {[cmd |-> "decode", password |-> NoPassword, plan |-> "exact"]}
    ELSE IF job.channel = "cut"
    THEN {[cmd |-> "decode", password |-> p, plan |-> "exact"] : p \in DecodePasswords}
    ELSE {[cmd |-> c, password |-> p, plan |-> "exact"] :
              c \in {"decode", "verify"}, p \in DecodePasswords}
         \cup {[cmd |-> "decode", password |-> job.password, plan |-> "legacy"]}

\* main's decode or verify command on the encoded video; lines 730-750
DecStart ==
    /\ epc = "closed"
    /\ dpc = "idle"
    /\ \E r \in Requests :
          /\ req' = r
          /\ stdout' = LET frames == Playback(r.plan) IN Flatten(frames, 1, Len(frames))
    /\ dpc' = "read_cal"
    /\ UNCHANGED <<rpos, cal_frame, meta_frame, attempts, meta, off, noise, all_blocks,
                   blocks, all_data, count, killed, warned, outcome, exitcode, fs>>
    /\ UNCHANGED <<envVars, encVars>>

\* a failure path that returns without proc.kill()
FailAlive(why, kill) ==
    /\ dpc' = "done"
    /\ outcome' = why
    /\ exitcode' = ExitOf(FALSE)
    /\ killed' = FALSE

\* a decoder that leaves the child running when the stream ends in the
\* first two frames
FailShortAlive(why, kill) ==
    /\ dpc' = "done"
    /\ outcome' = why
    /\ exitcode' = ExitOf(FALSE)
    /\ killed' = (kill /\ why \notin {"cal_short", "meta_short"})

\* decode returns False: main exits 1
Fail(why, kill) ==
    /\ dpc' = "done"
    /\ outcome' = why
    /\ exitcode' = ExitOf(FALSE)
    /\ killed' = kill

\* lines 752-756
DecReadCal ==
    /\ dpc = "read_cal"
    /\ cal_frame' = Read(FrameSize)
    /\ rpos' = rpos + Len(Read(FrameSize))
    /\ IF Len(Read(FrameSize)) < FrameSize
       THEN Fail("cal_short", TRUE)
       ELSE dpc' = "read_meta" /\ UNCHANGED <<outcome, exitcode, killed>>
    /\ UNCHANGED <<req, stdout, meta_frame, attempts, meta, off, noise, all_blocks,
                   blocks, all_data, count, warned, fs>>
    /\ UNCHANGED <<envVars, encVars>>

\* lines 758-762
DecReadMeta ==
    /\ dpc = "read_meta"
    /\ meta_frame' = Read(FrameSize)
    /\ rpos' = rpos + Len(Read(FrameSize))
    /\ IF Len(Read(FrameSize)) < FrameSize
       THEN Fail("meta_short", TRUE)
       ELSE dpc' = "probe" /\ UNCHANGED <<outcome, exitcode, killed>>
    /\ UNCHANGED <<req, stdout, cal_frame, attempts, meta, off, noise, all_blocks,
                   blocks, all_data, count, warned, fs>>
    /\ UNCHANGED <<envVars, encVars>>

\* the block sizes in ascending order
ProbeAscending == <<2, 4, 6, 8, 10, 12, 16>>

\* the candidates in the order of the nested loops: for bs in (8, 4, 16, 6,
\* 10, 12, 2): for bpc, lvls in ((2, YT_LEVELS), (3, LOCAL_LEVELS))
ProbeBlockSizes == <<8, 4, 16, 6, 10, 12, 2>>
ProbeDepths == <<<<2, YT_LEVELS>>, <<3, LOCAL_LEVELS>>>>
Candidate(k) ==
    [bs |-> ProbeBlockSizes[((k - 1) \div Len(ProbeDepths)) + 1],
     bpc |-> ProbeDepths[((k - 1) % Len(ProbeDepths)) + 1][1],
     lvls |-> ProbeDepths[((k - 1) % Len(ProbeDepths)) + 1][2]]
NCandidates == Len(ProbeBlockSizes) * Len(ProbeDepths)

\* one call of _try_decode_meta, for the log: the step of decode that made
\* it, the candidate, and whether it returned a header
Attempt(stage, c, m) == [stage |-> stage, bs |-> c.bs, bpc |-> c.bpc, ok |-> m # None]

RECURSIVE ProbePlainFrom(_, _)
\* lines 768-777 from candidate k on: the two breaks leave both loops at
\* the first parse that succeeds
ProbePlainFrom(k, log) ==
    IF k > NCandidates THEN [meta |-> None, off |-> NoOff, log |-> log]
    ELSE LET c == Candidate(k)
             m == try_decode_meta(meta_frame, W, H, c.bs, c.lvls, c.bpc, NoLuts)
             lg == Append(log, Attempt("plain", c, m))
         IN  IF m # None
             THEN [meta |-> m,
                   off |-> detect_calibration_shift(cal_frame, W, H, c.bs, c.lvls),
                   log |-> lg]
             ELSE ProbePlainFrom(k + 1, lg)

\* lines 764-777
DecProbe ==
    /\ dpc = "probe"
    /\ LET p == ProbePlainFrom(1, attempts)
       IN  /\ meta' = p.meta
           /\ off' = p.off
           /\ attempts' = p.log
    /\ dpc' = "probe_adj"
    /\ UNCHANGED <<req, stdout, rpos, cal_frame, meta_frame, noise, all_blocks, blocks,
                   all_data, count, killed, warned, outcome, exitcode, fs>>
    /\ UNCHANGED <<envVars, encVars>>

OffBig(o) == Abs(o.r) > 2 \/ Abs(o.g) > 2 \/ Abs(o.b) > 2

RECURSIVE ProbeAdjFrom(_, _, _)
\* lines 780-796 from candidate k on; the offsets of the last candidate
\* measured stay in r_off, g_off, b_off
ProbeAdjFrom(k, o, log) ==
    IF k > NCandidates THEN [meta |-> None, off |-> o, log |-> log]
    ELSE LET c == Candidate(k)
             d == detect_calibration_shift(cal_frame, W, H, c.bs, c.lvls)
         IN  IF OffBig(d)
             THEN LET m == try_decode_meta(meta_frame, W, H, c.bs, c.lvls, c.bpc,
                                           build_adjusted_lut(c.lvls, d.r, d.g, d.b))
                      lg == Append(log, Attempt("adjusted", c, m))
                  IN  IF m # None THEN [meta |-> m, off |-> d, log |-> lg]
                      ELSE ProbeAdjFrom(k + 1, d, lg)
             ELSE ProbeAdjFrom(k + 1, d, log)

\* lines 779-796
DecProbeAdj ==
    /\ dpc = "probe_adj"
    /\ IF meta = None /\ cal_frame # <<>>
       THEN LET p == ProbeAdjFrom(1, off, attempts)
            IN  /\ meta' = p.meta
                /\ off' = p.off
                /\ attempts' = p.log
       ELSE UNCHANGED <<meta, off, attempts>>
    /\ dpc' = "legacy"
    /\ UNCHANGED <<req, stdout, rpos, cal_frame, meta_frame, noise, all_blocks, blocks,
                   all_data, count, killed, warned, outcome, exitcode, fs>>
    /\ UNCHANGED <<envVars, encVars>>

RECURSIVE ProbeLegacyFrom(_, _, _)
\* lines 802-808 from candidate k on
ProbeLegacyFrom(k, frame, log) ==
    IF k > NCandidates THEN [meta |-> None, log |-> log]
    ELSE LET c == Candidate(k)
             m == try_decode_meta(frame, W, H, c.bs, c.lvls, c.bpc, NoLuts)
             lg == Append(log, Attempt("legacy", c, m))
         IN  IF m # None THEN [meta |-> m, log |-> lg]
             ELSE ProbeLegacyFrom(k + 1, frame, lg)

\* lines 798-808: old_cal is the second frame read; the third frame is read
\* into old_meta, whose length is all that is used
DecLegacy ==
    /\ dpc = "legacy"
    /\ IF meta = None
       THEN LET old_cal == meta_frame
                old_meta == Read(FrameSize)
            IN  /\ rpos' = rpos + Len(old_meta)
                /\ IF Len(old_meta) >= FrameSize
                   THEN LET p == ProbeLegacyFrom(1, old_cal, attempts)
                        IN  meta' = p.meta /\ attempts' = p.log
                   ELSE UNCHANGED <<meta, attempts>>
       ELSE UNCHANGED <<rpos, meta, attempts>>
    /\ dpc' = "header"
    /\ UNCHANGED <<req, stdout, cal_frame, meta_frame, off, noise, all_blocks, blocks,
                   all_data, count, killed, warned, outcome, exitcode, fs>>
    /\ UNCHANGED <<envVars, encVars>>

\* the header's values as decode uses them (lines 815-839)
HdrLevels == IF meta.bpc = 2 THEN YT_LEVELS ELSE LOCAL_LEVELS
HdrBytesPerFrame == ((W \div meta.block_size) * (H \div meta.block_size) * meta.bpc * 3) \div 8
NeedFrames == CeilDiv(meta.payload_size, HdrBytesPerFrame)

\* lut_r_adj, lut_g_adj, lut_b_adj (lines 827-831)
AdjLuts ==
    IF OffBig(off) THEN build_adjusted_lut(HdrLevels, off.r, off.g, off.b) ELSE NoLuts

\* lines 810-858.  w // bs with bs = 0 and payload_size / bytes_per_frame
\* with bytes_per_frame = 0 raise ZeroDivisionError, which nothing catches:
\* the interpreter exits 1 and the child is not killed.
DecHeader ==
    /\ dpc = "header"
    /\ IF meta = None
       THEN Fail("probe_failed", TRUE)
       ELSE IF meta.block_size = 0 \/ HdrBytesPerFrame = 0
       THEN Fail("crash", FALSE)
       ELSE IF meta.is_encrypted /\ req.password = NoPassword
       THEN Fail("password_required", TRUE)
       ELSE dpc' = "data" /\ UNCHANGED <<outcome, exitcode, killed>>
    /\ UNCHANGED <<req, stdout, rpos, cal_frame, meta_frame, attempts, meta, off, noise,
                   all_blocks, blocks, all_data, count, warned, fs>>
    /\ UNCHANGED <<envVars, encVars>>

\* the frames one pass of the data loop reads: up to n full frames, and the
\* short chunk that ends the reading (lines 867-871, 881-883)
\* a reader that takes a group only when all its n frames are there
WholeGroup(n) == IF (Len(stdout) - rpos) \div FrameSize >= n THEN n ELSE 0

FullFrames(n) == Min(n, (Len(stdout) - rpos) \div FrameSize)
GroupFrames(n) ==
    List([j \in 1..FullFrames(n) |->
        Slice(stdout, rpos + (j - 1) * FrameSize, rpos + j * FrameSize)])
GroupBytes(n) ==
    IF FullFrames(n) < n THEN Len(stdout) - rpos ELSE n * FrameSize

\* one pass of the data loop (lines 864-895); a break leaves the loop
DecGroup ==
    /\ dpc = "data"
    /\ count < NeedFrames
    /\ LET n == IF meta.repeat > 1 THEN meta.repeat ELSE 1
       IN  /\ rpos' = rpos + GroupBytes(n)
           /\ \E flips \in NoiseChoices(n) :
                LET frames == Noisy(GroupFrames(n), flips)
                    blk == merge_repeated_frames(frames, W, H, meta.block_size,
                               HdrLevels, meta.bpc, meta.repeat, AdjLuts)
                IN  IF frames = <<>>
                    THEN /\ dpc' = "post"
                         /\ UNCHANGED <<noise, all_blocks, blocks, all_data, count>>
                    ELSE /\ noise' = flips
                         /\ all_blocks' = IF meta.repeat <= 1 THEN <<>>
                                          ELSE AllBlocks(frames, W, H, meta.block_size,
                                                         HdrLevels, AdjLuts)
                         /\ blocks' = blk
                         /\ all_data' = all_data \o blocks_to_data(blk, meta.bpc)
                         /\ count' = count + 1
                         /\ dpc' = dpc
    /\ UNCHANGED <<req, stdout, cal_frame, meta_frame, attempts, meta, off, killed,
                   warned, outcome, exitcode, fs>>
    /\ UNCHANGED <<envVars, encVars>>

\* The path the kernel resolves for os.path.exists and open: empty and '.'
\* components dropped, '..' taken lexically (in the names used here the
\* component it leaves is the output directory, which os.makedirs has
\* made); <<abs, parts>> with parts the components left.  46 is '.'.
PathParts(path) ==
    LET abs == path # <<>> /\ path[1] = 47
        RECURSIVE Split(_, _, _)
        Split(i, cur, acc) ==
            IF i > Len(path) THEN (IF cur = <<>> THEN acc ELSE Append(acc, cur))
            ELSE IF path[i] = 47
                 THEN Split(i + 1, <<>>, IF cur = <<>> THEN acc ELSE Append(acc, cur))
                 ELSE Split(i + 1, Append(cur, path[i]), acc)
        RECURSIVE Walk(_, _, _)
        Walk(parts, i, stack) ==
            IF i > Len(parts) THEN stack
            ELSE IF parts[i] = <<46>> THEN Walk(parts, i + 1, stack)
            ELSE IF parts[i] = <<46, 46>>
                 THEN IF stack # <<>> /\ stack[Len(stack)] # <<46, 46>>
                      THEN Walk(parts, i + 1, SubSeq(stack, 1, Len(stack) - 1))
                      ELSE IF abs THEN Walk(parts, i + 1, stack)
                      ELSE Walk(parts, i + 1, Append(stack, parts[i]))
            ELSE Walk(parts, i + 1, Append(stack, parts[i]))
    IN  <<abs, Walk(Split(1, <<>>, <<>>), 1, <<>>)>>

\* the resolved path as a byte string: the key of an entry of fs
Resolved(path) ==
    LET pp == PathParts(path)
        RECURSIVE Join(_)
        Join(i) == IF i > Len(pp[2]) THEN <<>>
                   ELSE (IF i > 1 THEN <<47>> ELSE <<>>) \o pp[2][i] \o Join(i + 1)
    IN  (IF pp[1] THEN <<47>> ELSE <<>>) \o Join(1)

\* os.path.join(output_dir, fname); 47 is '/'
PathJoin(dir, name) ==
    IF name # <<>> /\ name[1] = 47 THEN name
    ELSE IF dir = <<>> \/ dir[Len(dir)] = 47 THEN dir \o name
    ELSE dir \o <<47>> \o name

\* s.rfind(ch): the last 0-based index of ch, or -1
RFind(s, ch) ==
    IF \E i \in 1..Len(s) : s[i] = ch
    THEN (CHOOSE i \in 1..Len(s) : s[i] = ch /\ \A j \in (i + 1)..Len(s) : s[j] # ch) - 1
    ELSE -1

\* os.path.splitext(name): <<base, ext>>; 46 is '.'
SplitExt(name) ==
    LET sep == RFind(name, 47)
        dot == RFind(name, 46)
    IN  IF dot > sep /\ \E k \in (sep + 1)..(dot - 1) : At(name, k) # 46
        THEN <<Slice(name, 0, dot), Slice(name, dot, Len(name))>>
        ELSE <<name, <<>>>>

RECURSIVE Decimal(_)
\* str(c) as bytes
Decimal(c) == IF c < 10 THEN <<48 + c>> ELSE Decimal(c \div 10) \o <<48 + (c % 10)>>

\* an existence test that never finds anything
NeverExists(files, path) == FALSE

Exists(files, path) == \E e \in files : e.path = Resolved(path)

RECURSIVE FreePath(_, _, _, _)
\* the while loop of lines 943-945 from counter c on
FreePath(files, dir, name, c) ==
    LET se == SplitExt(name)
        path == PathJoin(dir, se[1] \o <<95>> \o Decimal(c) \o se[2])
    IN  IF Exists(files, path) THEN FreePath(files, dir, name, c + 1) ELSE path

\* out_path of lines 939-945
OutPath(files, dir, name) ==
    IF Exists(files, PathJoin(dir, name)) THEN FreePath(files, dir, name, 1)
    ELSE PathJoin(dir, name)

\* the entry of a directory in fs
DirEntry(dir) == [path |-> dir, content |-> <<>>, isdir |-> TRUE]

\* open(path, 'wb') finds the directory of path: the working directory, the
\* root, a directory above the working directory, or a directory of files.
\* Otherwise open raises FileNotFoundError.
CanOpen(files, path) ==
    LET parts == PathParts(path)[2]
        parent == SubSeq(parts, 1, Len(parts) - 1)
    IN  \/ \A i \in 1..Len(parent) : parent[i] = <<46, 46>>
        \/ \E e \in files :
              e.isdir /\ PathParts(e.path) = <<PathParts(path)[1], parent>>

\* os.makedirs(output_dir, exist_ok=True), then open(out_path, 'wb').write
WriteFile(files, dir, name, content) ==
    LET withDir == files \cup {DirEntry(dir)}
        path == Resolved(OutPath(withDir, dir, name))
    IN  IF ~CanOpen(withDir, path) THEN withDir
        ELSE {e \in withDir : e.path # path}
                \cup {[path |-> path, content |-> content, isdir |-> FALSE]}

\* payload after the cut and the decryption (lines 903-907)
DecPayload ==
    LET cut == Slice(all_data, 0, meta.payload_size)
    IN  IF meta.is_encrypted
        THEN xor_crypt(cut, derive_key(req.password, meta.salt, Len(cut)))
        ELSE cut

\* the loop is over (lines 897-954): kill, warn, cut, decrypt, decompress,
\* compare the hash, and write the file unless verify_only.  When open
\* raises FileNotFoundError the exception leaves decode and main, and the
\* interpreter exits 1 with the directory made and no file written.
DecFinish ==
    /\ \/ dpc = "post"
       \/ dpc = "data" /\ count >= NeedFrames
    /\ killed' = TRUE
    /\ warned' = (count < NeedFrames)
    /\ dpc' = "done"
    /\ LET payload == DecPayload
       IN  IF meta.is_compressed /\ LibCorrupt(payload)
           THEN /\ outcome' = "decompress_failed"
                /\ exitcode' = ExitOf(FALSE)
                /\ fs' = fs
           ELSE LET file_data == decompress_data(payload, meta.is_compressed)
                    ok == file_sha256(file_data) = meta.file_hash
                    opened == \/ req.cmd = "verify"
                              \/ CanOpen(fs \cup {DirEntry(OutDir)},
                                         OutPath(fs \cup {DirEntry(OutDir)},
                                                 OutDir, meta.filename))
                IN  /\ outcome' = IF ~opened THEN "write_failed"
                                  ELSE IF ok THEN "ok" ELSE "hash_mismatch"
                    /\ exitcode' = ExitOf(ok /\ opened)
                    /\ fs' = IF req.cmd = "verify" THEN fs
                             ELSE WriteFile(fs, OutDir, meta.filename, file_data)
    /\ UNCHANGED <<req, stdout, rpos, cal_frame, meta_frame, attempts, meta, off, noise,
                   all_blocks, blocks, all_data, count>>
    /\ UNCHANGED <<envVars, encVars>>

(***************************************************************************)
(* Specification: encode a file, then decode or verify the video           *)
(***************************************************************************)
Next ==
    \/ EncStart
    \/ EncCal
    \/ EncMeta
    \/ EncChunk
    \/ EncClose
    \/ DecStart
    \/ DecReadCal
    \/ DecReadMeta
    \/ DecProbe
    \/ DecProbeAdj
    \/ DecLegacy
    \/ DecHeader
    \/ DecGroup
    \/ DecFinish

Spec == Init /\ [][Next]_vars

\* the decoder on videos as they are found: with any filename field in the
\* header and names taken in the output directory, or ending early
InitPlay ==
    /\ job \in FileJobs \cup ShortJobs
    /\ call = None
    /\ result = None
    /\ Idle

\* decode and its child run on: a step that is enabled is taken
SpecPlay == InitPlay /\ [][Next]_vars /\ WF_vars(Next)

\* encode and its child, with pipes that hold StdinCap frames and ErrCap
\* diagnostics
InitPipe ==
    /\ job \in PipeJobs
    /\ call = None
    /\ result = None
    /\ Idle

NextPipe ==
    \/ EncStart
    \/ EncCal
    \/ EncMeta
    \/ EncChunk
    \/ EncClose
    \/ ChildRead
    \/ ChildEmit
    \/ ChildExit
    \/ EncReadErr
    \/ EncWait

\* encode and the child run on: a step that can be taken is taken
SpecPipe == InitPipe /\ [][NextPipe]_vars /\ WF_vars(NextPipe)

\* the same program on the videos of the vote jobs, over a noisy channel
InitVote ==
    /\ job \in VoteJobs
    /\ call = None
    /\ result = None
    /\ Idle

SpecVote == InitVote /\ [][Next]_vars

(***************************************************************************)
(* Direct calls of Decoder._try_decode_meta on crafted metadata frames     *)
(***************************************************************************)
\* the encoders whose frames carry the crafted records: 91 unpacked bytes
\* (local, 9 x 9 blocks) and 12 unpacked bytes (youtube, 4 x 4 blocks)
MetaEncoders ==
    {Encoder(2, "local", 18, 18, DEFAULT_FPS, 1), Encoder(2, "youtube", 8, 8, DEFAULT_FPS, 1)}

\* original_size fields: 0, 1, 2 GiB, 2 GiB + 1, 2^56
SizeFields ==
    {Zeros(8), PackQ(1), <<0, 0, 0, 0, 128, 0, 0, 0>>, <<0, 0, 0, 0, 128, 0, 0, 1>>,
     <<1, 0, 0, 0, 0, 0, 0, 0>>}

\* name lengths: none, one that fits with every field after it, and the
\* least ones that push the CRC, the salt, the hash, payload_size,
\* original_size and the name itself past 91 bytes in a version 3 record
NameLens == {0, 1, 8, 9, 13, 29, 61, 69, 77}

\* what a crafted record varies
Knobs ==
    [magic_ok : BOOLEAN, ver : {2, 3}, name_len : NameLens, utf8_ok : BOOLEAN,
     size : SizeFields, crc_ok : BOOLEAN]

\* the record of a knob setting, laid out as _build_meta lays it out (a
\* version 2 record has no repeat, flags, payload_size and salt)
Craft(k, self) ==
    LET magic == IF k.magic_ok THEN MAGIC ELSE <<70, 86, 76, 85>>
        v3 == k.ver >= 3
        name == List([i \in 1..k.name_len |-> IF k.utf8_ok THEN 97 ELSE 255])
        body == magic \o <<k.ver, self.block_size, self.bpc>>
                  \o PackH(self.width) \o PackH(self.height) \o <<self.fps>>
                  \o (IF v3 THEN <<1, 0>> ELSE <<>>)
                  \o <<k.name_len>> \o name \o k.size
                  \o (IF v3 THEN PackQ(1) ELSE <<>>)
                  \o Sha256(<<>>)
                  \o (IF v3 THEN Zeros(16) ELSE <<>>)
        crc == Crc32(body)
    IN  body \o (IF k.crc_ok THEN crc ELSE <<crc[1], crc[2], crc[3], (crc[4] + 1) % 256>>)

\* the call _try_decode_meta(frame, width, height, bs, levels, bpc) on the
\* frame that carries the crafted record
MetaCall(k, self) ==
    [knobs |-> k,
     frame |-> render_frame(self, data_to_blocks(self, Craft(k, self), self.blocks_per_frame)),
     width |-> self.width, height |-> self.height, bs |-> self.block_size,
     levels |-> self.levels, bpc |-> self.bpc,
     buffer_len |-> (self.blocks_per_frame * self.bpb) \div 8]

MetaCalls == {MetaCall(k, e) : k \in Knobs, e \in MetaEncoders}

InitMeta ==
    /\ job = Job(BaseGeo, <<>>, 1, NoPassword, "clean")
    /\ call \in MetaCalls
    /\ result = None
    /\ Idle

\* the call returns; an exception that leaves _try_decode_meta would be the
\* value Raised
CallTryDecodeMeta ==
    /\ call # None
    /\ result = None
    /\ result' = [value |-> try_decode_meta(call.frame, call.width, call.height,
                                            call.bs, call.levels, call.bpc, NoLuts)]
    /\ UNCHANGED <<job, call, proc>>
    /\ UNCHANGED <<encVars, decVars>>

NextMeta == CallTryDecodeMeta

SpecMeta == InitMeta /\ [][NextMeta]_vars

(***************************************************************************)
(* Specification: direct calls of the pure functions                       *)
(***************************************************************************)
\* the longest byte string packed, and the most blocks asked for beyond
\* those the string fills
MaxPackLen == 3
MaxSpare == 2

\* the byte strings packed: every string of 0..MaxPackLen bytes over 0x00,
\* 0xA5 and 0xFF
PackData == UNION {[1..n -> {0, 165, 255}] : n \in 0..MaxPackLen}

\* calls _data_to_blocks(d, count) of an encoder of each mode (bpc 2 and 3),
\* with count from ceil(8 * len(d) / (3 * bpc)) up
PackCalls ==
    {[fn |-> "pack", self |-> Encoder(2, mode, 18, 18, DEFAULT_FPS, 1),
      data |-> List(d), count |-> CeilDiv(8 * Len(d), 3 * (IF mode = "youtube" THEN 2 ELSE 3)) + x] :
         mode \in {"youtube", "local"}, d \in PackData, x \in 0..MaxSpare}

\* the widest grid of a calibration frame, in blocks
MaxGrid == 12

\* calls detect_calibration_shift(generate_calibration_frame(w, h, bs,
\* levels), w, h, bs, levels): both palettes, grids too small to sample
\* (4), just large enough (5) and larger than the 8 x 8 samples taken
\* (MaxGrid), e pixels beyond the grid on each side
CalCalls ==
    {[fn |-> "cal", width |-> gw * bs + e, height |-> gh * bs + e, bs |-> bs, levels |-> L] :
         gw \in {4, 5, MaxGrid}, gh \in {4, 5, MaxGrid}, bs \in {1, 2, 5}, e \in {0, 1},
         L \in {YT_LEVELS, LOCAL_LEVELS}}

\* reads build_lut(levels)[v] for both palettes and every byte v
LutCalls == {[fn |-> "lut", levels |-> L, v |-> v] : L \in {YT_LEVELS, LOCAL_LEVELS}, v \in 0..255}

InitCalls ==
    /\ job = Job(BaseGeo, <<>>, 1, NoPassword, "clean")
    /\ call \in PackCalls \cup CalCalls \cup LutCalls
    /\ result = None
    /\ Idle

\* _data_to_blocks returns the levels of the blocks; the decoder's LUT turns
\* levels into indices (levels.index for the exact levels), and
\* _blocks_to_data unpacks the indices
CallPack ==
    /\ call # None
    /\ call.fn = "pack"
    /\ result = None
    /\ result' =
          LET blks == data_to_blocks(call.self, call.data, call.count)
              indices == List([k \in 1..Len(blks) |->
                                  <<LevelIndex(call.self.levels, blks[k][1]),
                                    LevelIndex(call.self.levels, blks[k][2]),
                                    LevelIndex(call.self.levels, blks[k][3])>>])
          IN  [value |-> blks, indices |-> indices,
               data |-> blocks_to_data(indices, call.self.bpc)]
    /\ UNCHANGED <<job, call, proc>>
    /\ UNCHANGED <<encVars, decVars>>

\* detect_calibration_shift on the frame generate_calibration_frame makes
CallCal ==
    /\ call # None
    /\ call.fn = "cal"
    /\ result = None
    /\ result' =
          [value |-> detect_calibration_shift(
                         generate_calibration_frame(call.width, call.height, call.bs,
                                                    call.levels),
                         call.width, call.height, call.bs, call.levels)]
    /\ UNCHANGED <<job, call, proc>>
    /\ UNCHANGED <<encVars, decVars>>

\* build_lut(levels), read at v
CallLut ==
    /\ call # None
    /\ call.fn = "lut"
    /\ result = None
    /\ result' = [value |-> build_lut(call.levels)[call.v + 1]]
    /\ UNCHANGED <<job, call, proc>>
    /\ UNCHANGED <<encVars, decVars>>

NextCalls ==
    \/ CallPack
    \/ CallCal
    \/ CallLut

SpecCalls == InitCalls /\ [][NextCalls]_vars

(***************************************************************************)
(* Properties of the encoder's output and of the round trip                *)
(***************************************************************************)
\* the command decodes the frames exactly as the encoder wrote them
ExactDecode ==
    /\ dpc = "done"
    /\ job.channel = "clean"
    /\ req.plan = "exact"
    /\ req.cmd = "decode"

\* C1: for every file (the empty one included) and every local-mode geometry
\* with a block size of the candidate set and a grid of at least 4 x 4
\* blocks, decoding the frames exactly as encode wrote them, without a
\* password, ends with the file's bytes written and a SHA-256 equal to the
\* header's file_hash.
C1_RoundTrip ==
    (/\ ExactDecode
     /\ job.geo.mode = "local"
     /\ job.password = NoPassword
     /\ Self.block_size \in {2, 4, 6, 8, 10, 12, 16}
     /\ Self.grid_w >= 4
     /\ Self.grid_h >= 4)
    => /\ outcome = "ok"
       /\ \E e \in fs : ~e.isdir /\ e.content = job.data
       /\ file_sha256(job.data) = meta.file_hash

\* C2: the frames written are the calibration frame, the metadata frame
\* once, then for each chunk in payload order repeat byte-identical copies
\* of its frame; after pass i of the data loop there are 2 + i * repeat
\* frames, at the close 2 + ceil(payload_size / bytes_per_frame) * repeat,
\* and the sink stays as it was at the close in every later state.
C2_FrameOrder ==
    /\ epc \in {"start", "cal", "crashed"} => sink = <<>>
    /\ epc = "meta" => Len(sink) = 1
    /\ epc \in {"data", "closed"} =>
        /\ Len(sink) = 2 + ei * Self.repeat
        /\ sink[1] = generate_calibration_frame(Self.width, Self.height,
                                                Self.block_size, Self.levels)
        /\ sink[2] = render_frame(Self, data_to_blocks(Self, MetaBytes,
                                                       Self.blocks_per_frame))
        /\ \A j \in 3..Len(sink) : sink[j] = Rendered((j - 3) \div Self.repeat)
    /\ epc = "closed" =>
        /\ ei = CeilDiv(Len(enc.payload), Self.bytes_per_frame)
        /\ Len(sink) = 2 + CeilDiv(Len(enc.payload), Self.bytes_per_frame) * Self.repeat

\* C2 happens: a payload of two chunks written with repeat = 2 and closed,
\* six frames in all, while the decoder is already reading them
C2_Witness ==
    /\ epc = "closed"
    /\ job.repeat = 2
    /\ enc.data_frames = 2
    /\ Len(sink) = 6
    /\ sink[3] = sink[4]
    /\ sink[5] = sink[6]
    /\ sink[3] # sink[5]
    /\ dpc = "done"

\* C3: every frame written is width * height * 3 bytes long, whatever the
\* width, height and block size, and the bytes of the pixels right of and
\* below the grid of full blocks are zero.
C3_FrameSize ==
    \A j \in 1..Len(sink) :
        /\ Len(sink[j]) = Self.width * Self.height * 3
        /\ \A o \in 0..(Len(sink[j]) - 1) :
              (\/ (o \div (Self.width * 3)) >= Self.grid_h * Self.block_size
               \/ ((o % (Self.width * 3)) \div 3) >= Self.grid_w * Self.block_size)
              => At(sink[j], o) = 0

(***************************************************************************)
(* Properties of the majority vote                                         *)
(***************************************************************************)
\* the least number of a non-empty set
Least(S) == CHOOSE x \in S : \A y \in S : x <= y

\* the frames of all_blocks, in read order, whose index for channel ch of
\* block bi has the highest number of votes
TopVoters(bi, ch) ==
    LET n == Len(all_blocks)
        cnt(f) == Cardinality({g \in 1..n : all_blocks[g][bi][ch] = all_blocks[f][bi][ch]})
    IN  {f \in 1..n : \A g \in 1..n : cnt(g) <= cnt(f)}

\* two or more indices share the highest number of votes
Tied(bi, ch) == Cardinality({all_blocks[f][bi][ch] : f \in TopVoters(bi, ch)}) >= 2

\* C4 (as the code has it): when two or more indices share the highest
\* number of votes for a block and channel, the merged index is the tied
\* index that got its first vote earliest, i.e. the one of the frame read
\* first among the frames voting for a tied index; it depends on the order
\* in which the frames were read.
C4_TieFirstRead ==
    Len(all_blocks) >= 2 =>
        \A bi \in 1..Len(blocks), ch \in 1..3 :
            Tied(bi, ch) =>
                blocks[bi][ch] = all_blocks[Least(TopVoters(bi, ch))][bi][ch]

\* C4 (as stated): on a tie the merged index is the numerically lowest of
\* the tied indices, whichever frame came first.
C4_TieLowest ==
    Len(all_blocks) >= 2 =>
        \A bi \in 1..Len(blocks), ch \in 1..3 :
            Tied(bi, ch) =>
                blocks[bi][ch] = Least({all_blocks[f][bi][ch] : f \in TopVoters(bi, ch)})

\* C4 happens: two frames disagree on a block, the frame read first holds
\* the higher index, and the vote returns the higher index
C4_Witness ==
    /\ Len(all_blocks) = 2
    /\ \E bi \in 1..Len(blocks), ch \in 1..3 :
          /\ all_blocks[1][bi][ch] > all_blocks[2][bi][ch]
          /\ blocks[bi][ch] = all_blocks[1][bi][ch]

\* the level indices of the blocks the encoder made of chunk i
OrigBlocks(i) ==
    LET b == data_to_blocks(Self, Chunk(i), Self.blocks_per_frame)
    IN  List([k \in 1..Len(b) |->
            <<LevelIndex(Self.levels, b[k][1]), LevelIndex(Self.levels, b[k][2]),
              LevelIndex(Self.levels, b[k][3])>>])

\* frame f of all_blocks differs from orig in exactly one index, and the
\* other frames are orig
OneWrongIndex(f, orig) ==
    /\ \A g \in (1..Len(all_blocks)) \ {f} : all_blocks[g] = orig
    /\ Cardinality({x \in (1..Len(orig)) \X (1..3) :
                        all_blocks[f][x[1]][x[2]] # orig[x[1]][x[2]]}) = 1

\* C5: with repeat = 3, when the block list of one of the three frames of a
\* group differs from the original in exactly one index and the other two
\* are intact, the vote returns the original indices for every block, the
\* payload decoded equals the payload encoded, and the hash check passes.
C5_MajorityTolerance ==
    (meta # None /\ meta.repeat = 3 /\ Len(all_blocks) = 3 /\ count = 1) =>
        \A orig \in {OrigBlocks(0)} :
            (\E f \in 1..3 : OneWrongIndex(f, orig)) =>
                /\ blocks = orig
                /\ Slice(all_data, 0, meta.payload_size) = enc.payload
                /\ dpc = "done" =>
                      /\ outcome = "ok"
                      /\ exitcode = 0
                      /\ \E e \in fs : ~e.isdir /\ e.content = job.data

\* C5 happens: the second of three frames came back with one wrong index,
\* and the decode ended with the checksum right
C5_Witness ==
    /\ dpc = "done"
    /\ meta # None
    /\ meta.repeat = 3
    /\ Len(all_blocks) = 3
    /\ \E f \in noise : noise = {f} /\ f.copy = 2
    /\ all_blocks[2] # all_blocks[1]
    /\ all_blocks[3] = all_blocks[1]
    /\ blocks = all_blocks[1]
    /\ outcome = "ok"

(***************************************************************************)
(* Properties of the decoder's failures                                    *)
(***************************************************************************)
\* the file decode writes for the header's name holds the decoded bytes
DecodedFileWritten ==
    \E e \in fs :
        /\ ~e.isdir
        /\ e.path = PathJoin(OutDir, meta.filename)
        /\ e.content = decompress_data(DecPayload, meta.is_compressed)

\* C6 (as the code has it): when the SHA-256 of the decoded data differs
\* from the header's file_hash, verify writes no file and exits 1, and
\* decode writes the decoded file and exits 1 as well.
C6_MismatchExitsOne ==
    outcome = "hash_mismatch" =>
        /\ dpc = "done"
        /\ req.cmd = "verify" => (fs = {} /\ exitcode = 1)
        /\ req.cmd = "decode" => (DecodedFileWritten /\ exitcode = 1)

\* C6 (as stated): on a hash mismatch verify writes no file and exits
\* non-zero, and decode writes the decoded file and exits 0.
C6_MismatchDecodeExitsZero ==
    outcome = "hash_mismatch" =>
        /\ req.cmd = "verify" => (fs = {} /\ exitcode # 0)
        /\ req.cmd = "decode" => (DecodedFileWritten /\ exitcode = 0)

\* C6 happens: a decode with the wrong password ended with a checksum
\* mismatch and the file written
C6_Witness ==
    /\ outcome = "hash_mismatch"
    /\ req.cmd = "decode"
    /\ req.password = WrongPW
    /\ DecodedFileWritten
    /\ exitcode = 1

\* C7: when the header parsed has the encrypted flag and no password was
\* given, decode and verify end with exit code 1 with no data frame read
\* (the two frames of the probe are all that was read), the child killed,
\* and no file or directory made.
C7_PasswordRequired ==
    (meta # None /\ meta.is_encrypted /\ req.password = NoPassword) =>
        /\ dpc \in {"probe_adj", "legacy", "header", "done"}
        /\ rpos = 2 * FrameSize
        /\ count = 0
        /\ all_data = <<>>
        /\ fs = {}
        /\ dpc = "done" =>
              /\ outcome = "password_required"
              /\ exitcode = 1
              /\ killed

\* C7 happens: verify without a password on an encrypted video
C7_Witness ==
    /\ dpc = "done"
    /\ req.cmd = "verify"
    /\ job.password = PW
    /\ req.password = NoPassword
    /\ meta # None
    /\ meta.is_encrypted
    /\ outcome = "password_required"

(***************************************************************************)
(* Properties of the metadata parser                                       *)
(***************************************************************************)
\* the length of the crafted record, from the magic to the end of the CRC
RecordLen(k) == (IF k.ver >= 3 THEN 83 ELSE 57) + k.name_len

\* the original_size fields that are 0 or above 2 GiB
SizesRefused == {Zeros(8), <<0, 0, 0, 0, 128, 0, 0, 1>>, <<1, 0, 0, 0, 0, 0, 0, 0>>}

\* C8: _try_decode_meta returns None when the magic is not FVLT, when the
\* name, a size field, the hash, the salt or the CRC would end past the
\* unpacked buffer, when the stored CRC-32 is not that of the bytes from the
\* magic up to the CRC field, and when original_size is 0 or above 2 GiB;
\* no exception leaves it; a record with a name and none of these faults
\* comes back as the header.
C8_ParserContract ==
    (call # None /\ result # None) =>
        /\ result.value # Raised
        /\ (\/ ~call.knobs.magic_ok
            \/ RecordLen(call.knobs) > call.buffer_len
            \/ ~call.knobs.crc_ok
            \/ call.knobs.size \in SizesRefused) => result.value = None
        /\ (/\ call.knobs.magic_ok
            /\ RecordLen(call.knobs) <= call.buffer_len
            /\ call.knobs.crc_ok
            /\ call.knobs.size \notin SizesRefused
            /\ call.knobs.name_len > 0
            /\ call.knobs.utf8_ok)
           => /\ result.value # None
              /\ result.value.version = call.knobs.ver
              /\ Len(result.value.filename) = call.knobs.name_len

\* C8 happens: a record that is right but for its CRC, with a name that is
\* not UTF-8, was parsed and refused without an exception
C8_Witness ==
    /\ call # None
    /\ result # None
    /\ call.knobs.magic_ok
    /\ RecordLen(call.knobs) <= call.buffer_len
    /\ ~call.knobs.crc_ok
    /\ ~call.knobs.utf8_ok
    /\ call.knobs.name_len > 0
    /\ call.knobs.size \notin SizesRefused
    /\ result.value = None

(***************************************************************************)
(* Properties of the probe                                                 *)
(***************************************************************************)
\* the candidates in the order of the probe, as <<bs, bpc>>
ProbeOrder ==
    <<<<8, 2>>, <<8, 3>>, <<4, 2>>, <<4, 3>>, <<16, 2>>, <<16, 3>>, <<6, 2>>, <<6, 3>>,
      <<10, 2>>, <<10, 3>>, <<12, 2>>, <<12, 3>>, <<2, 2>>, <<2, 3>>>>

\* the number of attempts of the plain probe in the log
PlainCount == Cardinality({i \in 1..Len(attempts) : attempts[i].stage = "plain"})

\* C9: the plain probe parses frame C1 for bs = 8, 4, 16, 6, 10, 12, 2 and,
\* for each, bpc = 2 then 3; the first parse that succeeds is the last
\* attempt made, the offsets are those of C0 measured with the block size
\* and palette of that candidate, and an attempt with an adjusted LUT is
\* made only after all 14 plain attempts failed.
C9_ProbeOrder ==
    /\ PlainCount <= 14
    /\ \A i \in 1..Len(attempts) :
          /\ i <= PlainCount =>
                /\ attempts[i].stage = "plain"
                /\ <<attempts[i].bs, attempts[i].bpc>> = ProbeOrder[i]
                /\ attempts[i].ok => i = Len(attempts)
          /\ attempts[i].stage = "adjusted" =>
                /\ PlainCount = 14
                /\ i > 14
                /\ \A j \in 1..14 : ~attempts[j].ok
    /\ (PlainCount > 0 /\ attempts[PlainCount].ok) =>
          /\ meta # None
          /\ meta = try_decode_meta(meta_frame, W, H, attempts[PlainCount].bs,
                        IF attempts[PlainCount].bpc = 2 THEN YT_LEVELS ELSE LOCAL_LEVELS,
                        attempts[PlainCount].bpc, NoLuts)
          /\ off = detect_calibration_shift(cal_frame, W, H, attempts[PlainCount].bs,
                        IF attempts[PlainCount].bpc = 2 THEN YT_LEVELS ELSE LOCAL_LEVELS)

\* C9 happens: a local video with the default block size 4 is recognised at
\* the fourth attempt, after (8, 2), (8, 3) and (4, 2) failed, and decoded
C9_Witness ==
    /\ dpc = "done"
    /\ outcome = "ok"
    /\ Len(attempts) = 4
    /\ ~attempts[1].ok /\ ~attempts[2].ok /\ ~attempts[3].ok
    /\ attempts[4] = [stage |-> "plain", bs |-> 4, bpc |-> 3, ok |-> TRUE]

\* C10: a stream without a calibration frame, whose first frame is a valid
\* metadata frame and which has a third frame to read, is recognised by the
\* step after the plain and the adjusted probe: decode does not end with
\* "not a FileVault video".
C10_LegacyRecognised ==
    (/\ dpc = "done"
     /\ req.plan = "legacy"
     /\ Len(stdout) >= 3 * FrameSize
     /\ try_decode_meta(Slice(stdout, 0, FrameSize), W, H, Self.block_size,
                        Self.levels, Self.bpc, NoLuts) # None)
    => outcome # "probe_failed"

(***************************************************************************)
(* Properties of the file decode writes                                    *)
(***************************************************************************)
\* the file decode should have made for the job: the name of the header
\* with the least counter not taken, holding the decoded bytes
NewFile ==
    [path |-> PathUnderOut(job.header,
                           Least({c \in 0..(MaxTaken + 1) : c \notin job.taken})),
     content |-> job.data, isdir |-> FALSE]

\* C11: when <output_dir>/<filename> exists, decode tries <base>_1<ext>,
\* <base>_2<ext>, ... in increasing order and writes to the first name that
\* does not exist: every file that was there before decode is there
\* unchanged in every state, and the one file decode adds has the least
\* counter that was free; when the directory of the name is missing, no
\* file is written at all.
C11_NoOverwrite ==
    job.channel = "forged" =>
        /\ \A e \in PreFiles(job) : e \in fs
        /\ dpc # "done" => fs = PreFiles(job)
        /\ (dpc = "done" /\ outcome \in {"ok", "hash_mismatch"}) =>
              fs = PreFiles(job) \cup {DirEntry(OutDir), NewFile}
        /\ (dpc = "done" /\ outcome \notin {"ok", "hash_mismatch"}) =>
              /\ outcome = "write_failed"
              /\ job.taken = {}
              /\ Cardinality(job.header.dirs) = 2
              /\ fs = {DirEntry(OutDir)}

\* C11 happens: out/a.b and out/a_1.b were there, and decode wrote the
\* file as out/a_2.b and left the two as they were
C11_Witness ==
    /\ dpc = "done"
    /\ outcome = "ok"
    /\ job.channel = "forged"
    /\ job.name = <<97, 46, 98>>
    /\ job.taken = {0, 1}
    /\ [path |-> OutDir \o <<47, 97, 46, 98>>, content |-> <<0>>, isdir |-> FALSE] \in fs
    /\ [path |-> OutDir \o <<47, 97, 95, 49, 46, 98>>, content |-> <<0>>, isdir |-> FALSE] \in fs
    /\ [path |-> OutDir \o <<47, 97, 95, 50, 46, 98>>, content |-> job.data, isdir |-> FALSE] \in fs
    /\ Cardinality(fs) = 4

(***************************************************************************)
(* Properties of decode on a stream that ends early                        *)
(***************************************************************************)
\* the whole data frames a cut stream delivers, and the groups the header
\* asks for, from the encoder's side
DataFramesSent == Max(0, Min(job.keep, Len(sink)) - 2)
GroupsNeeded == CeilDiv(Len(enc.payload), Self.bytes_per_frame)

\* the data loop has been entered and no header check has ended decode
InDataLoop ==
    /\ job.channel = "cut"
    /\ dpc \in {"data", "post", "done"}
    /\ dpc = "done" => outcome \in {"ok", "hash_mismatch", "decompress_failed"}

\* the state part of C12
ShortStreamHandled ==
    InDataLoop =>
        /\ rpos <= (2 + GroupsNeeded * job.repeat) * FrameSize
        /\ rpos <= Len(stdout)
        /\ count <= GroupsNeeded
        /\ Len(all_data) = count * Self.bytes_per_frame
        /\ dpc # "done" => ~warned
        /\ dpc = "done" =>
              /\ count = Min(GroupsNeeded, CeilDiv(DataFramesSent, job.repeat))
              /\ warned = (count < GroupsNeeded)
              /\ job.data = Ramp(LongLen) =>
                    [path |-> OutDir \o <<47>> \o FileName,
                     content |-> SubSeq(job.data, 1,
                                        Min(count * Self.bytes_per_frame, Len(job.data))),
                     isdir |-> FALSE] \in fs

\* the passes the data loop and the code after it can still make: a natural
\* number while count <= need_frames
LoopRank ==
    IF dpc = "data" THEN 2 + (GroupsNeeded - count)
    ELSE IF dpc = "post" THEN 1
    ELSE 0

\* every step taken in the loop or after its break lowers the rank
LoopStep == (job.channel = "cut" /\ dpc \in {"data", "post"}) => LoopRank' < LoopRank

\* C12: when the stream ends before need_frames groups were read, the data
\* loop ends, for repeat = 1 and for repeat > 1 (every step of the loop
\* lowers a rank that is never negative, so the loop makes at most
\* need_frames + 1 passes); a partial last group of 1..repeat-1 frames is
\* decoded from the frames it has and counted as one group; decode never
\* reads more than need_frames * repeat data frames; the warning is printed
\* exactly when fewer groups than needed were decoded; and decode goes on
\* with the bytes it has, cut to at most payload_size.
C12_ShortStream == [](ShortStreamHandled) /\ [][LoopStep]_vars

\* C12 happens: repeat is 3 and the stream ends five bytes into the third
\* data frame: the two frames are decoded as one group, one of two groups
\* is there, and the warning is printed
C12_Witness ==
    /\ job.channel = "cut"
    /\ job.repeat = 3
    /\ job.keep = 4
    /\ job.tail = TailLen
    /\ dpc = "done"
    /\ count = 1
    /\ rpos = 4 * FrameSize + TailLen
    /\ warned
    /\ outcome = "hash_mismatch"

(***************************************************************************)
(* Properties of the metadata frame                                        *)
(***************************************************************************)
\* C13: for every geometry encode accepts, the bytes _build_meta returns are
\* exactly bytes_per_frame long and hold the complete record, 83 + name_len
\* bytes that end with the CRC-32 of the bytes before it, followed only by
\* zero bytes: the record is never cut short.
C13_MetaComplete ==
    epc \in {"cal", "meta", "data", "closed"} =>
        \A m \in {MetaBytes} :
            LET record_len == 83 + Len(enc.fname)
            IN  /\ Len(m) = Self.bytes_per_frame
                /\ record_len <= Len(m)
                /\ Slice(m, record_len - 4, record_len) = Crc32(Slice(m, 0, record_len - 4))
                /\ \A o \in record_len..(Len(m) - 1) : At(m, o) = 0

(***************************************************************************)
(* Properties of the pure functions                                        *)
(***************************************************************************)
\* bit p (0 is the first) of the bit stream the index triples make
StreamBit(indices, bpc, p) ==
    LET t == indices[(p \div (3 * bpc)) + 1]
        q == p % (3 * bpc)
    IN  (t[(q \div bpc) + 1] \div 2^(bpc - 1 - (q % bpc))) % 2

\* C14: for bpc 2 and 3, a byte string d of length L and a block count of at
\* least ceil(8L / (3 bpc)), _blocks_to_data of the blocks of
\* _data_to_blocks(d, count), mapped back to indices, begins with d; every
\* block is a level of the palette with an index in [0, 2^bpc); and every
\* bit after the 8L bits of d is zero.
C14_PackInverse ==
    (call # None /\ call.fn = "pack" /\ result # None) =>
        LET L == Len(call.data)
            bpc == call.self.bpc
        IN  /\ bpc = (IF call.self.mode = "youtube" THEN 2 ELSE 3)
            /\ Len(result.value) = call.count
            /\ \A k \in 1..call.count : \A ch \in 1..3 :
                  /\ result.indices[k][ch] \in 0..(2^bpc - 1)
                  /\ result.value[k][ch] = call.self.levels[result.indices[k][ch] + 1]
            /\ Len(result.data) = (call.count * 3 * bpc) \div 8
            /\ SubSeq(result.data, 1, L) = call.data
            /\ \A p \in (8 * L)..(call.count * 3 * bpc - 1) :
                  StreamBit(result.indices, bpc, p) = 0
            /\ \A p \in 0..(8 * L - 1) :
                  StreamBit(result.indices, bpc, p)
                      = (call.data[(p \div 8) + 1] \div 2^(7 - (p % 8))) % 2

\* C14 happens: the two bytes A5 FF fill one block of 9 bits and 7 bits of
\* the next, and come back with a third block of zeros behind them
C14_Witness ==
    /\ call # None
    /\ call.fn = "pack"
    /\ result # None
    /\ call.self.bpc = 3
    /\ call.data = <<165, 255>>
    /\ call.count = 3
    /\ result.indices = <<<<5, 1, 3>>, <<7, 7, 4>>, <<0, 0, 0>>>>
    /\ result.data = <<165, 255, 0>>

\* C15: detect_calibration_shift on the frame generate_calibration_frame
\* makes for the same width, height, block size and levels returns the
\* offsets (0, 0, 0) and no errors; every pixel it samples lies inside the
\* frame buffer and inside a block of the interior region; and with a grid
\* too small to have an interior it samples nothing and returns
\* (0, 0, 0, 0.0).
C15_CalibrationInvariant ==
    (call # None /\ call.fn = "cal" /\ result # None) =>
        LET grid_w == call.width \div call.bs
            grid_h == call.height \div call.bs
            cells == CalCells(call.width, call.height, call.bs)
        IN  /\ result.value.r = 0 /\ result.value.g = 0 /\ result.value.b = 0
            /\ result.value.errors = 0
            /\ result.value.total
                 = 3 * Max(0, Min(grid_w - 2, 10) - 2) * Max(0, Min(grid_h - 2, 10) - 2)
            /\ (grid_w <= 4 \/ grid_h <= 4) => result.value.total = 0
            /\ Len(cells) * 3 = result.value.total
            /\ \A j \in 1..Len(cells) :
                  LET px == CalPixel(cells[j], call.bs, call.width)
                  IN  /\ px.o >= 0 /\ px.o + 2 < call.width * call.height * 3
                      /\ px.cx < call.width /\ px.cy < call.height
                      /\ px.cx \div call.bs = cells[j][1]
                      /\ px.cy \div call.bs = cells[j][2]
                      /\ cells[j][1] >= 2 /\ cells[j][1] < grid_w - 2
                      /\ cells[j][2] >= 2 /\ cells[j][2] < grid_h - 2

\* C15 happens: a 12 x 5 grid of 5-pixel blocks with a pixel beyond it on
\* each side is sampled in 8 x 1 blocks, with no offset and no error
C15_Witness ==
    /\ call # None
    /\ call.fn = "cal"
    /\ result # None
    /\ call.bs = 5
    /\ call.width = 61
    /\ call.height = 26
    /\ call.levels = LOCAL_LEVELS
    /\ result.value = [r |-> 0, g |-> 0, b |-> 0, errors |-> 0, total |-> 24]

\* C16: build_lut(L)[v] is an index i that minimises |v - L[i]|, the lowest
\* such index when two levels are equally near, and build_lut(L)[L[i]] = i
\* for every level.
C16_LutNearest ==
    (call # None /\ call.fn = "lut" /\ result # None) =>
        LET L == call.levels
            i == result.value
            dist(k) == IF call.v >= L[k + 1] THEN call.v - L[k + 1] ELSE L[k + 1] - call.v
        IN  /\ i \in 0..(Len(L) - 1)
            /\ \A k \in 0..(Len(L) - 1) : dist(i) <= dist(k)
            /\ \A k \in 0..(i - 1) : dist(k) > dist(i)
            /\ \A k \in 0..(Len(L) - 1) : call.v = L[k + 1] => i = k

\* C16 happens: 164 is 18 away from 146 (index 4) and from 182 (index 5),
\* and the table has 4
C16_Witness ==
    /\ call # None
    /\ call.fn = "lut"
    /\ result # None
    /\ call.levels = LOCAL_LEVELS
    /\ call.v = 164
    /\ result.value = 4

(***************************************************************************)
(* Properties of the encoder's geometry                                    *)
(***************************************************************************)
\* C17: for every Encoder main constructs and encode then uses, whatever the
\* mode, width, height and block size (a block size larger than the width
\* or the height included), bytes_per_frame > 0, so that the frame count
\* ceil(payload_size / bytes_per_frame) is defined and
\* data_frames * bytes_per_frame >= payload_size.
C17_GeometryInvariant ==
    epc # "start" =>
        /\ Self.bytes_per_frame > 0
        /\ epc # "crashed"
        /\ enc.data_frames * Self.bytes_per_frame >= Len(enc.payload)

(***************************************************************************)
(* Properties of the child process                                         *)
(***************************************************************************)
\* the ways decode returns after the child was spawned
ReturnPaths ==
    {"cal_short", "meta_short", "probe_failed", "password_required", "ok",
     "decompress_failed", "hash_mismatch"}

\* C18: on every return path of decode taken after the child was spawned
\* (short calibration frame, short metadata frame, probe failure, password
\* required, normal completion, decompression failure, hash mismatch) kill
\* has been requested when decode returns, and decode has read no more of
\* the child's output than the path needs: what there is of the first two
\* frames on the short paths, the two frames and at most the one frame of
\* the legacy probe on the header paths, and at most need_frames * repeat
\* data frames more on the others; it does not drain the output or wait
\* for the child before the kill.
C18_Teardown ==
    /\ dpc # "done" => ~killed
    /\ (dpc = "done" /\ outcome \in ReturnPaths) =>
          /\ killed
          /\ rpos <= Len(stdout)
          /\ outcome = "cal_short" => rpos < FrameSize
          /\ outcome = "meta_short" => rpos < 2 * FrameSize
          /\ outcome = "password_required" => rpos = 2 * FrameSize
          /\ outcome = "probe_failed" => rpos <= 3 * FrameSize
          /\ outcome \in {"ok", "decompress_failed", "hash_mismatch"} =>
                rpos <= (2 + GroupsNeeded * job.repeat) * FrameSize

\* C18 happens: decode of an encrypted video without a password returns
\* after the two header frames, with the data frame unread and the child
\* killed
C18_Witness ==
    /\ dpc = "done"
    /\ outcome = "password_required"
    /\ killed
    /\ rpos = 2 * FrameSize
    /\ Len(stdout) = 3 * FrameSize

\* encode is in a write to the child's stdin that cannot return
EncoderBlocked ==
    /\ \/ epc \in {"cal", "meta"}
       \/ epc = "data" /\ ei < enc.data_frames
    /\ ~StdinHasRoom

\* the child is in a write to its stderr that cannot return
ChildBlocked == proc.pending = 1 /\ proc.err >= ErrCap

\* C19: with bounded pipes, encode is never blocked in a write to the
\* child's stdin while the child is blocked in a write to the stderr pipe,
\* which encode is not reading: whatever the child emits while frames are
\* being written, encode can go on to close stdin and return.
C19_PipeProgress == ~(EncoderBlocked /\ ChildBlocked)

(***************************************************************************)
(* Properties of the place of the output file                              *)
(***************************************************************************)
\* C20: whatever the filename field of the header holds (separators, '..',
\* an absolute path), every file decode writes lies inside the output
\* directory: its resolved path is the directory, a separator and a name.
C20_OutputConfined ==
    \A e \in fs \ PreFiles(job) :
        ~e.isdir =>
            /\ Len(e.path) > Len(OutDir) + 1
            /\ SubSeq(e.path, 1, Len(OutDir) + 1) = OutDir \o <<47>>

=============================================================================
